---- MODULE Spec2Model ----
(***************************************************************************)
(* Verification model of aws-s3-tui (package awss).                        *)
(*                                                                         *)
(*   SpecResolve : S3Service.select_best_bucket_profiles (awss/s3.py),     *)
(*                 the concurrent probe fan-out and the ranking.           *)
(*   SpecSso     : S3Browser._call_with_sso_retry and _reauth_sso_profile  *)
(*                 (awss/app.py), callers interleaved on one event loop.   *)
(*   SpecCache   : S3Service.save_bucket_cache / load_bucket_cache         *)
(*                 (awss/s3.py) over the cache file, the clock and the AWS *)
(*                 config files the fingerprint is computed from.          *)
(***************************************************************************)
EXTENDS Integers, Sequences, FiniteSets, TLC

(***************************************************************************)
(* Bounds of the model.                                                    *)
(***************************************************************************)
MaxProfiles == 3
MaxBuckets == 2
MaxProbes == 4
MaxCallers == 2
MaxLogins == 2
MaxRecords == 2
MaxTime == 2
MaxReaders == 2
MaxLoads == 2
MaxIssued == 3
MaxShows == 2
MaxPage == 2
MaxScan == 3
MaxPad == 10
MaxTail == 2
MaxVisits == 2
MaxNodes == 4
MaxOps == 3

(***************************************************************************)
(* Generic helpers.                                                        *)
(***************************************************************************)
Range(s) == {s[i] : i \in DOMAIN s}

Min2(a, b) == IF a <= b THEN a ELSE b

\* Python's lexicographic comparison of two tuples of integers of equal length.
RECURSIVE TupleLess(_, _)
TupleLess(a, b) ==
    IF Len(a) = 0 \/ Len(b) = 0 THEN Len(a) < Len(b)
    ELSE IF a[1] # b[1] THEN a[1] < b[1]
    ELSE TupleLess(Tail(a), Tail(b))

\* Python's max(seq, key=...) on the list of keys: the index of the first
\* element whose key is maximal.
FirstMaxIndex(ks) ==
    CHOOSE i \in DOMAIN ks :
        /\ \A j \in DOMAIN ks : ~TupleLess(ks[i], ks[j])
        /\ \A j \in 1..(i - 1) : TupleLess(ks[j], ks[i])

\* list with the duplicates removed, first occurrence kept
RECURSIVE Dedup(_)
Dedup(s) ==
    IF Len(s) = 0 THEN << >>
    ELSE LET front == Dedup(SubSeq(s, 1, Len(s) - 1))
             last == s[Len(s)]
         IN IF last \in Range(front) THEN front ELSE Append(front, last)

RECURSIVE Flatten(_)
Flatten(ss) == IF Len(ss) = 0 THEN << >> ELSE Head(ss) \o Flatten(Tail(ss))

RECURSIVE SetToSeq(_)
SetToSeq(S) ==
    IF S = {} THEN << >>
    ELSE LET x == CHOOSE y \in S : \A z \in S : y <= z
         IN <<x>> \o SetToSeq(S \ {x})

(***************************************************************************)
(* awss/s3.py : access levels and bucket records.                          *)
(***************************************************************************)
None == "None"

BUCKET_ACCESS_UNKNOWN == "unknown"
BUCKET_ACCESS_NO_VIEW == "no_view"
BUCKET_ACCESS_NO_DOWNLOAD == "no_download"
BUCKET_ACCESS_GOOD == "good"

BUCKET_ACCESS_LEVELS ==
    (BUCKET_ACCESS_NO_VIEW :> 0) @@ (BUCKET_ACCESS_NO_DOWNLOAD :> 1)
        @@ (BUCKET_ACCESS_GOOD :> 2) @@ (BUCKET_ACCESS_UNKNOWN :> 0)

BucketInfo(name, profile, access, is_empty) ==
    [name |-> name, profile |-> profile, access |-> access, is_empty |-> is_empty]

\* a value that is an Exception instance (the outcome of a task that raised)
SsoExpiredError == "UnauthorizedSSOTokenError"
IsException(v) == v = SsoExpiredError

_normalize_bucket_access(value) ==
    IF value \in DOMAIN BUCKET_ACCESS_LEVELS THEN value ELSE BUCKET_ACCESS_UNKNOWN

_bucket_access_level(access) ==
    IF access \in DOMAIN BUCKET_ACCESS_LEVELS THEN BUCKET_ACCESS_LEVELS[access] ELSE 0

\* names of the configured profiles and of the buckets of the backend
NamedPool == <<"dev", "prod", "stage", "qa", "ops">>
BucketPool == <<"bucket-a", "bucket-b", "bucket-c", "bucket-d">>

(***************************************************************************)
(* State.                                                                  *)
(***************************************************************************)
VARIABLES
    profiles,        \* S3Service.profiles, the configured profiles in order
    buckets,         \* argument of select_best_bucket_profiles
    rpc,             \* position of select_best_bucket_profiles
    probe_keys,      \* its probe_keys list
    probe_results,   \* outcome of each probe task ("pending" until it ran)
    calls,           \* (bucket, profile) pairs the probe was invoked with
    resolved,        \* the list it returns
    outcome,         \* "none", "returned" or "raised"
    sso_reauth_inflight,  \* S3Browser._sso_reauth_inflight: label -> task
    tasks,           \* the do_login tasks created so far
    login_calls,     \* per label, the number of _run_sso_login invocations
    callers,         \* the coroutines in _call_with_sso_retry / _reauth_sso_profile
    aws_files,       \* content of ~/.aws/config and ~/.aws/credentials
    cache_file,      \* content of the bucket cache file (<< >> when missing)
    now,             \* the clock, in seconds
    cache_ttl,       \* S3Service._bucket_cache_ttl_seconds
    cache_pc,        \* "idle", or the call that has just returned
    cache_input,     \* the bucket list the application hands to save_bucket_cache
    last_save,       \* the latest save_bucket_cache call: result, clock, fingerprint
    load_result,     \* the list the latest load_bucket_cache returned
    load_call,       \* how that call was made and the exception it raised, if any
    fs,              \* the cache path and its temporary sibling: path -> content
    saver,           \* the thread in save_bucket_cache: position, payload, result
    readers,         \* the threads reading the cache path and what they read
    preview_token,   \* S3Browser._preview_token
    preview,         \* the preview pane and the _preview_* fields
    loads,           \* the preview and stats loads in flight
    content_token,   \* S3Browser._content_token
    table,           \* the rows of s3_table
    content_rows,    \* S3Browser._content_rows
    current_context, \* S3Browser.current_context
    history,         \* S3Browser._history, whose index is its last entry
    children,        \* per tree node, the prefixes of its children
    bucket,          \* the entry of the bucket in S3Browser.buckets
    shows,           \* the invocations of show_prefix
    list_data,       \* the objects the bucket holds under the prefix, in key order
    page_size,       \* how many entries the service puts on one page
    lister,          \* the thread in _list_prefixes_and_objects or _scan_prefix_recursive
    probe_backend,   \* how the service answers one probe: the listing and each read
    probe,           \* one call of _probe_profile_access_for_bucket and its outcome
    lba,             \* one call of list_buckets_all: its threads and what it returns
    refresh,         \* refresh_buckets: its position, what it shows, the calls it made
    s3_tree,         \* the tree: nodes, registries, cursor, pending batch, posted selections
    browser,         \* the view beside the tree: context, path bar, rows, history, bucket
    tree_shows,      \* the invocations of show_prefix on the nodes of the tree
    expansion,       \* one tree node under on_tree_node_expanded: its children, the handlers
    pane,            \* the preview pane with byte ranges: object, content, selection, loads
    clients,         \* S3Service._clients, the clients constructed, the threads in _client
    pager,           \* a paginated listing against a chain of backend pages
    ledger,          \* S3Browser.buckets under a profile switch, and the cache written after it
    reloads,         \* overlapping refresh_buckets invocations and what each has put in place
    cursor           \* the history, its cursor and the back and forward buttons

resolveVars ==
    <<profiles, buckets, rpc, probe_keys, probe_results, calls, resolved, outcome>>

ssoVars == <<sso_reauth_inflight, tasks, login_calls, callers>>

cacheVars ==
    <<aws_files, cache_file, now, cache_ttl, cache_pc, cache_input, last_save, load_result,
      load_call>>

atomicVars == <<fs, saver, readers>>

previewVars == <<preview_token, preview, loads>>

navVars ==
    <<content_token, table, content_rows, current_context, history, children, bucket, shows>>

listVars == <<list_data, page_size, lister>>

probeVars == <<probe_backend, probe>>

treeVars == <<s3_tree, browser, tree_shows>>

\* the variables of the later parts, and what the actions of each leave alone
restVars == <<expansion, pane, clients, pager, ledger, reloads, cursor>>
expansionFrame ==
    <<resolveVars, ssoVars, cacheVars, atomicVars, previewVars, navVars,
      listVars, probeVars, lba, refresh, treeVars, pane, clients, pager, ledger, reloads, cursor>>
paneFrame ==
    <<resolveVars, ssoVars, cacheVars, atomicVars, previewVars, navVars,
      listVars, probeVars, lba, refresh, treeVars, expansion, clients, pager, ledger, reloads, cursor>>
clientsFrame ==
    <<resolveVars, ssoVars, cacheVars, atomicVars, previewVars, navVars,
      listVars, probeVars, lba, refresh, treeVars, expansion, pane, pager, ledger, reloads, cursor>>
pagerFrame ==
    <<resolveVars, ssoVars, cacheVars, atomicVars, previewVars, navVars,
      listVars, probeVars, lba, refresh, treeVars, expansion, pane, clients, ledger, reloads, cursor>>
ledgerFrame ==
    <<resolveVars, ssoVars, cacheVars, atomicVars, previewVars, navVars,
      listVars, probeVars, lba, refresh, treeVars, expansion, pane, clients, pager, reloads, cursor>>
reloadsFrame ==
    <<resolveVars, ssoVars, cacheVars, atomicVars, previewVars, navVars,
      listVars, probeVars, lba, refresh, treeVars, expansion, pane, clients, pager, ledger, cursor>>
cursorFrame ==
    <<resolveVars, ssoVars, cacheVars, atomicVars, previewVars, navVars,
      listVars, probeVars, lba, refresh, treeVars, expansion, pane, clients, pager, ledger, reloads>>
ExpansionUnused == expansion = << >>
PaneUnused == pane = << >>
ClientsUnused == clients = << >>
PagerUnused == pager = << >>
LedgerUnused == ledger = << >>
ReloadsUnused == reloads = << >>
CursorUnused == cursor = << >>
RestUnused ==
    /\ ExpansionUnused
    /\ PaneUnused
    /\ ClientsUnused
    /\ PagerUnused
    /\ LedgerUnused
    /\ ReloadsUnused
    /\ CursorUnused
ExpansionOnly ==
    /\ PaneUnused
    /\ ClientsUnused
    /\ PagerUnused
    /\ LedgerUnused
    /\ ReloadsUnused
    /\ CursorUnused
PaneOnly ==
    /\ ExpansionUnused
    /\ ClientsUnused
    /\ PagerUnused
    /\ LedgerUnused
    /\ ReloadsUnused
    /\ CursorUnused
ClientsOnly ==
    /\ ExpansionUnused
    /\ PaneUnused
    /\ PagerUnused
    /\ LedgerUnused
    /\ ReloadsUnused
    /\ CursorUnused
PagerOnly ==
    /\ ExpansionUnused
    /\ PaneUnused
    /\ ClientsUnused
    /\ LedgerUnused
    /\ ReloadsUnused
    /\ CursorUnused
LedgerOnly ==
    /\ ExpansionUnused
    /\ PaneUnused
    /\ ClientsUnused
    /\ PagerUnused
    /\ ReloadsUnused
    /\ CursorUnused
ReloadsOnly ==
    /\ ExpansionUnused
    /\ PaneUnused
    /\ ClientsUnused
    /\ PagerUnused
    /\ LedgerUnused
    /\ CursorUnused
CursorOnly ==
    /\ ExpansionUnused
    /\ PaneUnused
    /\ ClientsUnused
    /\ PagerUnused
    /\ LedgerUnused
    /\ ReloadsUnused

vars ==
    <<resolveVars, ssoVars, cacheVars, atomicVars, previewVars, navVars, listVars, probeVars,
      lba, refresh, treeVars, restVars>>

\* what the actions of one part leave alone
resolveFrame == <<ssoVars, cacheVars, atomicVars, previewVars, navVars, listVars, probeVars, lba, refresh, treeVars, restVars>>
ssoFrame == <<resolveVars, cacheVars, atomicVars, previewVars, navVars, listVars, probeVars, lba, refresh, treeVars, restVars>>
cacheFrame == <<resolveVars, ssoVars, atomicVars, previewVars, navVars, listVars, probeVars, lba, refresh, treeVars, restVars>>
atomicFrame == <<resolveVars, ssoVars, cacheVars, previewVars, navVars, listVars, probeVars, lba, refresh, treeVars, restVars>>
previewFrame == <<resolveVars, ssoVars, cacheVars, atomicVars, navVars, listVars, probeVars, lba, refresh, treeVars, restVars>>
navFrame == <<resolveVars, ssoVars, cacheVars, atomicVars, listVars, probeVars, lba, refresh, treeVars, restVars>>
listFrame == <<resolveVars, ssoVars, cacheVars, atomicVars, previewVars, navVars, probeVars, lba, refresh, treeVars, restVars>>
probeFrame ==
    <<resolveVars, ssoVars, cacheVars, atomicVars, previewVars, navVars, listVars, lba,
      refresh, treeVars, restVars>>
\* list_buckets_all reads the profiles and leaves the rest of the first part alone
listAllFrame ==
    <<buckets, rpc, probe_keys, probe_results, calls, resolved, outcome, ssoVars, cacheVars,
      atomicVars, previewVars, navVars, listVars, probeVars, refresh, treeVars, restVars>>
refreshFrame ==
    <<resolveVars, ssoVars, cacheVars, atomicVars, previewVars, navVars, listVars, probeVars,
      lba, treeVars, restVars>>
treeFrame ==
    <<resolveVars, ssoVars, cacheVars, atomicVars, previewVars, navVars, listVars, probeVars,
      lba, refresh, restVars>>

(***************************************************************************)
(* awss/s3.py : _probe_profile_access_for_bucket.                          *)
(* A backend response says how list_objects_v2 answers ("ok", "denied" or  *)
(* "sso" for an expired session) and, when it lists keys, how the ranged   *)
(* get_object of each listed key answers.                                  *)
(***************************************************************************)
ProbeListLimit == 10
ProbeSampleLimit == 5

ReadOutcomes == {"ok", "denied", "sso"}

Backends ==
    {[list |-> l, reads |-> << >>] : l \in {"ok", "denied", "sso"}}
        \cup {[list |-> "ok", reads |-> <<r>>] : r \in ReadOutcomes}
        \cup {[list |-> "ok", reads |-> <<r1, r2>>] : r1 \in ReadOutcomes, r2 \in ReadOutcomes}

\* mutant: an expired session met by a read counts as a denied read
RECURSIVE ProbeReadsSwallow(_)
ProbeReadsSwallow(reads) ==
    IF Len(reads) = 0 THEN BUCKET_ACCESS_NO_DOWNLOAD
    ELSE IF Head(reads) \in {"sso", "denied"} THEN ProbeReadsSwallow(Tail(reads))
    ELSE BUCKET_ACCESS_GOOD

RECURSIVE ProbeReads(_)
ProbeReads(reads) ==
    IF Len(reads) = 0 THEN BUCKET_ACCESS_NO_DOWNLOAD
    ELSE IF Head(reads) = "sso" THEN SsoExpiredError
    ELSE IF Head(reads) = "denied" THEN ProbeReads(Tail(reads))
    ELSE BUCKET_ACCESS_GOOD

\* lines 268-276: the entries of contents[:10] that carry a key ("nokey"
\* stands for an entry that is no dict or whose Key is no non-empty string)
UsableKeys(reads) ==
    SelectSeq(SubSeq(reads, 1, Min2(Len(reads), ProbeListLimit)), LAMBDA r : r # "nokey")

\* keys[:5]
SampledKeys(keys) == SubSeq(keys, 1, Min2(Len(keys), ProbeSampleLimit))

\* how many times client.get_object is called for the sampled keys
RECURSIVE ProbeReadsMade(_)
ProbeReadsMade(reads) ==
    IF Len(reads) = 0 THEN 0
    ELSE IF Head(reads) = "denied" THEN 1 + ProbeReadsMade(Tail(reads))
    ELSE 1

_probe_profile_access_for_bucket(backend) ==
    IF backend.list = "sso" THEN SsoExpiredError
    ELSE IF backend.list = "denied" THEN BUCKET_ACCESS_NO_VIEW
    ELSE LET keys == UsableKeys(backend.reads)
         IN IF Len(keys) = 0 THEN BUCKET_ACCESS_GOOD
            ELSE ProbeReads(SampledKeys(keys))

\* what a probe task can deliver: the probe above on some backend response,
\* or the value of an overriding probe (tests/test_s3.py _StubService)
ProbeOutcomes ==
    {_probe_profile_access_for_bucket(b) : b \in Backends} \cup {BUCKET_ACCESS_UNKNOWN}

\* the backends one probe is run against: the listing fails, or it answers
\* with a run of entries of one sort followed by any short tail
Repeat(x, n) == [k \in 1..n |-> x]
ProbeTails ==
    UNION {[1..n -> ReadOutcomes \cup {"nokey"}] : n \in 0..MaxTail}
ProbeBackends ==
    {[list |-> l, reads |-> << >>] : l \in {"denied", "sso"}}
        \cup {[list |-> "ok", reads |-> Repeat(x, n) \o tail] :
                 x \in {"nokey", "denied"}, n \in 0..MaxPad, tail \in ProbeTails}

NoProbe == [pc |-> "idle", access |-> BUCKET_ACCESS_UNKNOWN, reads_made |-> 0]

\* no probe runs: its variables hold nothing
ProbeUnused ==
    /\ probe_backend = << >>
    /\ probe = << >>

\* one call of _probe_profile_access_for_bucket: what it returns (or the
\* expired-session error it raises) and the reads it made
ProbeCall ==
    /\ probe.pc = "idle"
    /\ probe' = [pc |-> "returned",
                 access |-> _probe_profile_access_for_bucket(probe_backend),
                 reads_made |-> IF probe_backend.list = "ok"
                                THEN ProbeReadsMade(SampledKeys(UsableKeys(probe_backend.reads)))
                                ELSE 0]
    /\ UNCHANGED <<probe_backend, probeFrame>>

(***************************************************************************)
(* awss/s3.py : select_best_bucket_profiles.                               *)
(***************************************************************************)
\* keys of by_name, in insertion order
ByNameKeys(bs) == Dedup([i \in DOMAIN bs |-> bs[i].name])

\* by_name[name]: the profiles that listed the bucket, in order, no duplicates
ListedProfiles(bs, name) ==
    LET HasName(b) == b.name = name
        mine == SelectSeq(bs, HasName)
    IN Dedup([i \in DOMAIN mine |-> mine[i].profile])

ProbeProfiles(ps) == IF Len(ps) > 0 THEN ps ELSE <<None>>

\* mutant: only the profiles that listed a bucket are probed for it
ProbeKeysListedOnly(bs, ps) ==
    LET names == ByNameKeys(bs)
        pp == ProbeProfiles(ps)
        Listed(k) == \E i \in DOMAIN bs : bs[i].name = k[1] /\ bs[i].profile = k[2]
    IN SelectSeq(Flatten([n \in DOMAIN names |-> [p \in DOMAIN pp |-> <<names[n], pp[p]>>]]),
                 Listed)

ProbeKeys(bs, ps) ==
    LET names == ByNameKeys(bs)
        pp == ProbeProfiles(ps)
    IN Flatten([n \in DOMAIN names |-> [p \in DOMAIN pp |-> <<names[n], pp[p]>>]])

\* profile_rank.get(profile, len(profile_rank))
ProfileRank(pp, profile) ==
    IF profile \in Range(pp) THEN CHOOSE i \in DOMAIN pp : pp[i] = profile
    ELSE Len(pp)

\* mutant: gather propagates the first exception of a probe task
GatherPropagatesExceptions == FALSE

\* return_exceptions argument of asyncio.gather
GatherReturnExceptions == TRUE

\* the loop over zip(probe_keys, probe_results)
ScoreProbe(result) ==
    IF IsException(result) THEN BUCKET_ACCESS_NO_VIEW
    ELSE _normalize_bucket_access(result)

\* probe_access.get((name, profile), BUCKET_ACCESS_NO_VIEW)
ProbeAccess(keys, results, name, profile) ==
    IF \E i \in DOMAIN keys : keys[i] = <<name, profile>>
    THEN ScoreProbe(results[CHOOSE i \in DOMAIN keys : keys[i] = <<name, profile>>])
    ELSE BUCKET_ACCESS_NO_VIEW

\* mutant: the listing is ranked above the defaultness
profile_key_listed_first(keys, results, pp, listed, name, profile) ==
    <<_bucket_access_level(ProbeAccess(keys, results, name, profile)),
      IF profile \in Range(listed) THEN 1 ELSE 0,
      IF profile # None THEN 1 ELSE 0,
      0 - ProfileRank(pp, profile)>>

\* mutant: the key ignores whether the profile listed the bucket
profile_key_no_listed(keys, results, pp, listed, name, profile) ==
    <<_bucket_access_level(ProbeAccess(keys, results, name, profile)),
      IF profile # None THEN 1 ELSE 0,
      0,
      0 - ProfileRank(pp, profile)>>

\* profile_key(profile) for bucket name
profile_key(keys, results, pp, listed, name, profile) ==
    <<_bucket_access_level(ProbeAccess(keys, results, name, profile)),
      IF profile # None THEN 1 ELSE 0,
      IF profile \in Range(listed) THEN 1 ELSE 0,
      0 - ProfileRank(pp, profile)>>

\* key of the fallback max(): (profile is not None, -rank)
fallback_key(pp, profile) ==
    <<IF profile # None THEN 1 ELSE 0, 0 - ProfileRank(pp, profile)>>

\* mutant: the fallback ranks every configured profile
FallbackProfilesRanked(listed, ranked) == ranked

\* fallback_profiles = listed_profiles or ranked_profiles
FallbackProfiles(listed, ranked) == IF Len(listed) > 0 THEN listed ELSE ranked

\* body of the loop "for name, listed_profiles in by_name.items()"
ResolveBucket(keys, results, ps, bs, name) ==
    LET pp == ProbeProfiles(ps)
        listed == ListedProfiles(bs, name)
        ranked == IF Len(pp) > 0 THEN pp
                  ELSE IF Len(listed) > 0 THEN listed ELSE <<None>>
        best_profile ==
            ranked[FirstMaxIndex([i \in DOMAIN ranked |->
                       profile_key(keys, results, pp, listed, name, ranked[i])])]
        best_access == ProbeAccess(keys, results, name, best_profile)
        fallback_profiles == FallbackProfiles(listed, ranked)
        fallback_profile ==
            fallback_profiles[FirstMaxIndex([i \in DOMAIN fallback_profiles |->
                                  fallback_key(pp, fallback_profiles[i])])]
    IN IF _bucket_access_level(best_access) <= 0
       THEN BucketInfo(name, fallback_profile, BUCKET_ACCESS_NO_VIEW, FALSE)
       ELSE BucketInfo(name, best_profile, best_access, FALSE)

ResolveAll(keys, results, ps, bs) ==
    LET names == ByNameKeys(bs)
    IN [n \in DOMAIN names |-> ResolveBucket(keys, results, ps, bs, names[n])]

(***************************************************************************)
(* awss/app.py : session-expiry classification.                            *)
(* An exception is its type name and the words of its message; the text    *)
(* f"{type(exc).__name__}: {exc}".lower() is the lower-cased word list and *)
(* a marker matches when its words occur in it consecutively.              *)
(***************************************************************************)
NoError == [type |-> "NoneType", msg |-> << >>]

ErrSsoSession ==
    [type |-> "Exception",
     msg |-> <<"UnauthorizedSSOTokenError", ":", "The", "SSO", "session", "associated",
               "with", "this", "profile", "has", "expired", "or", "is", "otherwise",
               "invalid", ".">>]

ErrAccessDenied ==
    [type |-> "Exception", msg |-> <<"AccessDenied", ":", "forbidden">>]

ErrInvalidToken ==
    [type |-> "ClientError",
     msg |-> <<"An", "error", "occurred", "(", "InvalidToken", ")", ":", "The",
               "provided", "token", "is", "malformed", ".">>]

\* exception objects are held by name
Errors == {"ErrSsoSession", "ErrAccessDenied", "ErrInvalidToken"}

ExceptionOf(e) ==
    CASE e = "ErrSsoSession" -> ErrSsoSession
      [] e = "ErrAccessDenied" -> ErrAccessDenied
      [] e = "ErrInvalidToken" -> ErrInvalidToken
      [] OTHER -> NoError

LowerMap ==
    ("UnauthorizedSSOTokenError" :> "unauthorizedssotokenerror") @@ ("The" :> "the")
        @@ ("SSO" :> "sso") @@ ("An" :> "an")
        @@ ("AccessDenied" :> "accessdenied") @@ ("InvalidToken" :> "invalidtoken")
        @@ ("Exception" :> "exception") @@ ("ClientError" :> "clienterror")
        @@ ("NoneType" :> "nonetype")

Lower(w) == IF w \in DOMAIN LowerMap THEN LowerMap[w] ELSE w

ErrorText(exc) ==
    LET raw == <<exc.type, ":">> \o exc.msg
    IN [i \in DOMAIN raw |-> Lower(raw[i])]

SsoMarkers ==
    {<<"unauthorizedssotokenerror">>,
     <<"sso", "session">>,
     <<"sso", "token">>,
     <<"token", "has", "expired">>,
     <<"token", "is", "expired">>,
     <<"expiredtoken">>,
     <<"the", "sso", "session", "associated", "with", "this", "profile", "has", "expired">>,
     <<"error", "loading", "sso", "token">>,
     <<"run", "aws", "sso", "login">>,
     <<"aws", "sso", "login">>}

Contains(text, marker) ==
    \E i \in 1..(Len(text) - Len(marker) + 1) :
        SubSeq(text, i, i + Len(marker) - 1) = marker

_is_sso_expired_error(exc) ==
    IF exc = NoError THEN FALSE
    ELSE \E marker \in SsoMarkers : Contains(ErrorText(exc), marker)

(***************************************************************************)
(* awss/app.py : _reauth_sso_profile and _call_with_sso_retry.             *)
(***************************************************************************)
\* what _is_sso_expired_error answers for each exception object
ExpiredErrors == {e \in Errors \cup {"NoError"} : _is_sso_expired_error(ExceptionOf(e))}

(***************************************************************************)
(* The two coroutines.                                                     *)
(* Coroutines run on one event loop: what lies between two awaits is one   *)
(* step.  A do_login task is "created" by create_task, runs                *)
(* _run_sso_login ("login") and completes ("done") with its result.        *)
(***************************************************************************)
NoTask == 0

Callers == 1..MaxCallers

_profile_label(profile) == IF profile = None THEN "default" ELSE profile

SsoProfiles == <<None, "dev">>
Labels == {_profile_label(SsoProfiles[i]) : i \in DOMAIN SsoProfiles}

IdleCaller ==
    [pc |-> "idle", kind |-> "none", profile |-> None, op_calls |-> 0, reauths |-> 0,
     inflight |-> NoTask, relogged |-> FALSE, first_err |-> "NoError", err |-> "NoError"]

\* mutant: the lookup never finds the task in flight
InflightLookupMisses(map, label) == NoTask

\* self._sso_reauth_inflight.get(profile_name)
InflightLookup(map, label) == map[label]

\* mutant: the entry is never removed
ReauthFinallyKeeps(map, label, inflight, done) == map

\* the finally block of _reauth_sso_profile
ReauthFinally(map, label, inflight, done) ==
    IF map[label] = inflight /\ done THEN [map EXCEPT ![label] = NoTask] ELSE map

\* mutant: the operation is retried whatever the re-authentication returned
RetryAlways(relogged) == TRUE

\* "if not relogged: raise", else the operation is called again
ShouldRetry(relogged) == relogged

\* mutant: every error is answered by a re-authentication
ReauthOnAnyError(exc) == TRUE

\* "if not self._is_sso_expired_error(exc): raise"
ReauthOnError(exc) == exc \in ExpiredErrors

\* the caller after _reauth_sso_profile returned ok to it
AfterReauth(rec, ok) ==
    IF rec.kind = "direct"
    THEN [rec EXCEPT !.pc = "returned", !.relogged = ok]
    ELSE IF ShouldRetry(ok)
         THEN [rec EXCEPT !.pc = "op2", !.relogged = ok, !.op_calls = @ + 1]
         ELSE [rec EXCEPT !.pc = "raised", !.relogged = ok, !.err = rec.first_err]

\* _reauth_sso_profile from its entry to its first suspension (or to its
\* return, when the task found in the map is already done)
EnterReauth(c, rec0) ==
    LET rec == [rec0 EXCEPT !.reauths = @ + 1]
        label == _profile_label(rec.profile)
        found == InflightLookup(sso_reauth_inflight, label)
    IN IF found = NoTask
       THEN /\ Len(tasks) < MaxLogins
            /\ tasks' = Append(tasks, [label |-> label, state |-> "created", result |-> FALSE])
            /\ sso_reauth_inflight' = [sso_reauth_inflight EXCEPT ![label] = Len(tasks) + 1]
            /\ callers' = [callers EXCEPT ![c] =
                              [rec EXCEPT !.pc = "await_reauth", !.inflight = Len(tasks) + 1]]
       ELSE IF tasks[found].state = "done"
       THEN /\ sso_reauth_inflight' = ReauthFinally(sso_reauth_inflight, label, found, TRUE)
            /\ callers' = [callers EXCEPT ![c] =
                              AfterReauth([rec EXCEPT !.inflight = found], tasks[found].result)]
            /\ UNCHANGED tasks
       ELSE /\ callers' = [callers EXCEPT ![c] =
                              [rec EXCEPT !.pc = "await_reauth", !.inflight = found]]
            /\ UNCHANGED <<tasks, sso_reauth_inflight>>

\* _call_with_sso_retry is called: the operation is invoked and awaited
CallWithSsoRetry(c) ==
    /\ callers[c].pc = "idle"
    /\ \E i \in DOMAIN SsoProfiles :
         callers' = [callers EXCEPT ![c] =
                        [IdleCaller EXCEPT !.pc = "op1", !.kind = "retry",
                                           !.profile = SsoProfiles[i], !.op_calls = 1]]
    /\ UNCHANGED <<sso_reauth_inflight, tasks, login_calls, ssoFrame>>

\* the first invocation of the operation returns
OperationReturns(c) ==
    /\ callers[c].pc = "op1"
    /\ callers' = [callers EXCEPT ![c].pc = "returned"]
    /\ UNCHANGED <<sso_reauth_inflight, tasks, login_calls, ssoFrame>>

\* the first invocation of the operation raises: the except clause up to
\* its raise or to the suspension in _reauth_sso_profile
OperationRaises(c) ==
    /\ callers[c].pc = "op1"
    /\ \E e \in Errors :
         LET rec == [callers[c] EXCEPT !.first_err = e]
         IN IF ~ReauthOnError(e)
            THEN /\ callers' = [callers EXCEPT ![c] = [rec EXCEPT !.pc = "raised", !.err = e]]
                 /\ UNCHANGED <<sso_reauth_inflight, tasks>>
            ELSE EnterReauth(c, rec)
    /\ UNCHANGED <<login_calls, ssoFrame>>

\* _reauth_sso_profile called on its own (refresh_buckets)
ReauthDirect(c) ==
    /\ callers[c].pc = "idle"
    /\ \E i \in DOMAIN SsoProfiles :
         EnterReauth(c, [IdleCaller EXCEPT !.kind = "direct", !.profile = SsoProfiles[i]])
    /\ UNCHANGED <<login_calls, ssoFrame>>

\* the do_login task starts: it notifies and invokes _run_sso_login
LoginStart(t) ==
    /\ tasks[t].state = "created"
    /\ tasks' = [tasks EXCEPT ![t].state = "login"]
    /\ login_calls' = [login_calls EXCEPT ![tasks[t].label] = @ + 1]
    /\ UNCHANGED <<sso_reauth_inflight, callers, ssoFrame>>

\* _run_sso_login returns True or False and the task completes
LoginDone(t) ==
    /\ tasks[t].state = "login"
    /\ \E ok \in BOOLEAN : tasks' = [tasks EXCEPT ![t].state = "done", ![t].result = ok]
    /\ UNCHANGED <<sso_reauth_inflight, login_calls, callers, ssoFrame>>

\* a caller suspended in "await inflight" resumes: the finally block, then
\* the rest of _call_with_sso_retry up to the second invocation or the raise
ReauthResume(c) ==
    /\ callers[c].pc = "await_reauth"
    /\ tasks[callers[c].inflight].state = "done"
    /\ sso_reauth_inflight' =
           ReauthFinally(sso_reauth_inflight, _profile_label(callers[c].profile),
                         callers[c].inflight, tasks[callers[c].inflight].state = "done")
    /\ callers' = [callers EXCEPT ![c] = AfterReauth(callers[c], tasks[callers[c].inflight].result)]
    /\ UNCHANGED <<tasks, login_calls, ssoFrame>>

\* the second invocation of the operation returns
RetryReturns(c) ==
    /\ callers[c].pc = "op2"
    /\ callers' = [callers EXCEPT ![c].pc = "returned"]
    /\ UNCHANGED <<sso_reauth_inflight, tasks, login_calls, ssoFrame>>

\* the second invocation of the operation raises: the error leaves the handler
RetryRaises(c) ==
    /\ callers[c].pc = "op2"
    /\ \E e \in Errors : callers' = [callers EXCEPT ![c].pc = "raised", ![c].err = e]
    /\ UNCHANGED <<sso_reauth_inflight, tasks, login_calls, ssoFrame>>

\* the call is over and the coroutine ends: each coroutine makes one call
CallerDone(c) ==
    /\ callers[c].pc \in {"returned", "raised"}
    /\ callers' = [callers EXCEPT ![c] = [IdleCaller EXCEPT !.pc = "done"]]
    /\ UNCHANGED <<sso_reauth_inflight, tasks, login_calls, ssoFrame>>

SsoIdle ==
    /\ sso_reauth_inflight = [l \in Labels |-> NoTask]
    /\ tasks = << >>
    /\ login_calls = [l \in Labels |-> 0]
    /\ callers = [c \in Callers |-> IdleCaller]

\* nothing calls through _call_with_sso_retry: its variables hold nothing
SsoUnused ==
    /\ sso_reauth_inflight = << >>
    /\ tasks = << >>
    /\ login_calls = << >>
    /\ callers = << >>

(***************************************************************************)
(* awss/s3.py : the bucket cache.                                          *)
(* The cache file holds the JSON envelope save_bucket_cache wrote.  JSON   *)
(* null is JsonNull for a string, JsonNullTime for saved_at and the empty  *)
(* sequence for the digest; an ISO-8601 time is its seconds and its zone.  *)
(***************************************************************************)
Absent == "absent"
JsonNull == "null"
NoHash == << >>
NoTime == 0 - 1
NoFile == << >>

AwsSources == <<"config", "credentials">>

\* str.strip() on the strings of the model
StripMap == (" " :> "") @@ (" dev " :> "dev") @@ (" bucket-a" :> "bucket-a")
Strip(text) == IF text \in DOMAIN StripMap THEN StripMap[text] ELSE text

\* _aws_config_hash: SHA-256 over label, NUL, data, NUL of every readable
\* source; the digest is represented by the hashed sequence itself
_aws_config_hash(files) ==
    LET hashed == Flatten([i \in DOMAIN AwsSources |->
                     IF files[AwsSources[i]] = Absent THEN << >>
                     ELSE <<AwsSources[i], "NUL", files[AwsSources[i]], "NUL">>])
    IN IF Len(hashed) = 0 THEN NoHash ELSE hashed

\* datetime.now(timezone.utc).isoformat()
IsoFormat(t) == [secs |-> t, zone |-> "+00:00"]

JsonNullTime == [secs |-> 0, zone |-> JsonNull]

_parse_cache_saved_at(value) ==
    IF value = JsonNullTime THEN NoTime
    ELSE IF value.zone \in {"Z", "+00:00", ""} THEN value.secs
    ELSE NoTime

_decode_profile(value) ==
    IF value = JsonNull THEN None
    ELSE IF Strip(value) \in {"", "default", "__default__"} THEN None
    ELSE Strip(value)

_decode_access(value) == _normalize_bucket_access(value)

\* mutant: the is_empty flag of a row is not read back
_decode_is_empty_ignored(value) == FALSE

_decode_is_empty(value) == value = TRUE

_decode_cache_hash(value) == IF Len(value) = 0 THEN NoHash ELSE value

\* position of a bucket name in the order sorted() uses
NameOrder(name) == CHOOSE i \in DOMAIN BucketPool : BucketPool[i] = name

\* latest_by_name, then the rows sorted by name
CacheRows(bs) ==
    LET names == {bs[i].name : i \in DOMAIN bs}
        sorted == SetToSeq({NameOrder(n) : n \in names})
        Latest(n) == bs[CHOOSE i \in DOMAIN bs :
                          bs[i].name = n /\ \A j \in DOMAIN bs : bs[j].name = n => j <= i]
    IN [k \in DOMAIN sorted |->
           LET info == Latest(BucketPool[sorted[k]])
           IN [name |-> info.name,
               profile |-> IF info.profile = None THEN JsonNull ELSE info.profile,
               access |-> _normalize_bucket_access(info.access),
               is_empty |-> info.is_empty = TRUE]]

CachePayload(bs, t, files) ==
    [saved_at |-> IsoFormat(t),
     aws_config_sha256 |-> _aws_config_hash(files),
     buckets |-> CacheRows(bs)]

\* json.dumps(payload): the text of the file is a JSON object whose "buckets"
\* member is a list
JsonDumps(payload) == [json |-> "object", buckets_type |-> "list"] @@ payload

\* an item of the list that is no JSON object
JsonNullItem == [name |-> JsonNull, profile |-> JsonNull, access |-> JsonNull, is_empty |-> FALSE]

RECURSIVE DecodeRows(_)
DecodeRows(items) ==
    IF Len(items) = 0 THEN << >>
    ELSE LET item == Head(items)
             stripped == Strip(item.name)
         IN IF item = JsonNullItem \/ item.name = JsonNull \/ stripped = ""
            THEN DecodeRows(Tail(items))
            ELSE <<BucketInfo(stripped, _decode_profile(item.profile),
                              _decode_access(item.access), _decode_is_empty(item.is_empty))>>
                    \o DecodeRows(Tail(items))

\* what json.loads(self._bucket_cache_path.read_text()) raises
ReadError(file) ==
    IF file = NoFile THEN "FileNotFoundError"
    ELSE IF file[1].json = "invalid" THEN "JSONDecodeError"
    ELSE "none"

\* mutant: the error of the read is not caught
ReadExceptMissing(err) == err

\* "except Exception: return None, [], None": no error leaves the read
ReadExcept(err) == "none"

_read_bucket_cache(file) ==
    IF ReadError(file) # "none" \/ file[1].json # "object"
    THEN [saved_at |-> NoTime, buckets |-> << >>, cache_hash |-> NoHash]
    ELSE IF file[1].buckets_type # "list"
    THEN [saved_at |-> _parse_cache_saved_at(file[1].saved_at),
          buckets |-> << >>,
          cache_hash |-> _decode_cache_hash(file[1].aws_config_sha256)]
    ELSE [saved_at |-> _parse_cache_saved_at(file[1].saved_at),
          buckets |-> DecodeRows(file[1].buckets),
          cache_hash |-> _decode_cache_hash(file[1].aws_config_sha256)]

\* mutant: the stored fingerprint is not compared with the live one
load_bucket_cache_no_hash(file, files, t, ttl) ==
    LET read == _read_bucket_cache(file)
    IN IF Len(read.buckets) = 0 THEN << >>
       ELSE IF ttl <= 0 THEN read.buckets
       ELSE IF read.saved_at = NoTime THEN << >>
       ELSE IF t - read.saved_at > ttl THEN << >>
       ELSE read.buckets

\* mutant: an undefined fingerprint makes the cache invalid
load_bucket_cache_hash_required(file, files, t, ttl) ==
    LET read == _read_bucket_cache(file)
    IN IF Len(read.buckets) = 0 THEN << >>
       ELSE IF read.cache_hash = NoHash \/ read.cache_hash # _aws_config_hash(files) THEN << >>
       ELSE IF ttl <= 0 THEN read.buckets
       ELSE IF read.saved_at = NoTime THEN << >>
       ELSE IF t - read.saved_at > ttl THEN << >>
       ELSE read.buckets

\* mutant: the age of the cache is not checked
load_bucket_cache_no_ttl(file, files, t, ttl) ==
    LET read == _read_bucket_cache(file)
    IN IF Len(read.buckets) = 0 THEN << >>
       ELSE IF read.cache_hash # _aws_config_hash(files) THEN << >>
       ELSE read.buckets

load_bucket_cache(file, files, t, ttl) ==
    LET read == _read_bucket_cache(file)
    IN IF Len(read.buckets) = 0 THEN << >>
       ELSE IF read.cache_hash # _aws_config_hash(files) THEN << >>
       ELSE IF ttl <= 0 THEN read.buckets
       ELSE IF read.saved_at = NoTime THEN << >>
       ELSE IF t - read.saved_at > ttl THEN << >>
       ELSE read.buckets

\* bucket records handed to save_bucket_cache
CacheRecords ==
    {BucketInfo("bucket-a", None, BUCKET_ACCESS_NO_VIEW, FALSE),
     BucketInfo("bucket-b", "dev", BUCKET_ACCESS_GOOD, TRUE),
     BucketInfo("bucket-a", "dev", BUCKET_ACCESS_UNKNOWN, FALSE)}

RecordLists == UNION {[1..n -> CacheRecords] : n \in 0..MaxRecords}

NoSave ==
    [called |-> FALSE, ok |-> FALSE, at |-> 0, hash |-> NoHash, written |-> FALSE,
     raised |-> "none"]

\* "except Exception: return False" around mkdir, write_text and replace
WriteExcept(err) == "none"

NoLoad == [ignore_ttl |-> FALSE, raised |-> "none"]

\* the signature of load_bucket_cache has no parameter but self: a call with
\* the keyword ignore_ttl raises TypeError before the body runs
LoadRaises(file, ignore_ttl) ==
    IF ignore_ttl THEN "TypeError" ELSE ReadExcept(ReadError(file))

\* cache files that were not written by save_bucket_cache: damaged, edited or
\* written by another version when the clock was 0, with the fingerprint h
Epoch2000 == 0 - 10
GoodRow == [name |-> "bucket-a", profile |-> "dev", access |-> BUCKET_ACCESS_GOOD, is_empty |-> FALSE]
PaddedRow == [name |-> " bucket-a", profile |-> " dev ", access |-> "bogus", is_empty |-> TRUE]
BlankNameRow == [GoodRow EXCEPT !.name = " "]
NonStringNameRow == [GoodRow EXCEPT !.name = JsonNull]
MixedRows == <<JsonNullItem, NonStringNameRow, BlankNameRow, PaddedRow>>

ForeignDoc(json, buckets_type, saved_at, h, rows) ==
    [json |-> json, buckets_type |-> buckets_type, saved_at |-> saved_at,
     aws_config_sha256 |-> h, buckets |-> rows]

ForeignDocs(h) ==
    {ForeignDoc("invalid", "list", JsonNullTime, NoHash, << >>),
     ForeignDoc("array", "list", JsonNullTime, NoHash, << >>),
     ForeignDoc("object", "other", IsoFormat(0), h, << >>),
     ForeignDoc("object", "list", IsoFormat(0), h, MixedRows),
     ForeignDoc("object", "list", JsonNullTime, h, <<GoodRow>>),
     ForeignDoc("object", "list", [secs |-> 0, zone |-> "garbage"], h, <<GoodRow>>),
     ForeignDoc("object", "list", [secs |-> 0, zone |-> ""], h, <<GoodRow>>),
     ForeignDoc("object", "list", IsoFormat(Epoch2000), h, <<GoodRow>>)}

\* the bucket cache is not used: its variables hold nothing
CacheUnused ==
    /\ aws_files = << >>
    /\ cache_file = << >>
    /\ now = << >>
    /\ cache_ttl = << >>
    /\ cache_pc = << >>
    /\ cache_input = << >>
    /\ last_save = << >>
    /\ load_result = << >>
    /\ load_call = << >>

\* save_bucket_cache(cache_input); the write of the temporary file or its rename
\* may fail, then the file is left as it was and False is returned
SaveBucketCache ==
    /\ cache_pc = "idle"
    /\ \E written \in BOOLEAN :
         /\ cache_file' = IF written
                          THEN <<JsonDumps(CachePayload(cache_input, now, aws_files))>>
                          ELSE cache_file
         /\ last_save' =
                LET raised == WriteExcept(IF written THEN "none" ELSE "OSError")
                IN [called |-> TRUE, ok |-> written /\ raised = "none", at |-> now,
                    hash |-> _aws_config_hash(aws_files), written |-> written,
                    raised |-> raised]
    /\ cache_pc' = "saved"
    /\ UNCHANGED <<aws_files, now, cache_ttl, cache_input, load_result, load_call,
                   cacheFrame>>

\* load_bucket_cache(), or load_bucket_cache(ignore_ttl=True) as the tests
\* call it
LoadBucketCache ==
    /\ cache_pc = "idle"
    /\ \E ignore_ttl \in BOOLEAN :
         LET raised == LoadRaises(cache_file, ignore_ttl)
         IN /\ load_call' = [ignore_ttl |-> ignore_ttl, raised |-> raised]
            /\ load_result' = IF raised # "none" THEN << >>
                               ELSE load_bucket_cache(cache_file, aws_files, now, cache_ttl)
    /\ cache_pc' = "loaded"
    /\ UNCHANGED <<aws_files, cache_file, now, cache_ttl, cache_input, last_save, cacheFrame>>

\* the caller has the result of the call
CacheCallDone ==
    /\ cache_pc \in {"saved", "loaded"}
    /\ cache_pc' = "idle"
    /\ load_result' = << >>
    /\ load_call' = NoLoad
    /\ UNCHANGED <<aws_files, cache_file, now, cache_ttl, cache_input, last_save, cacheFrame>>

\* a second passes
Tick ==
    /\ cache_pc = "idle"
    /\ now < MaxTime
    /\ now' = now + 1
    /\ UNCHANGED <<aws_files, cache_file, cache_ttl, cache_pc, cache_input, last_save,
                   load_result, load_call, cacheFrame>>

\* the user edits, creates or deletes ~/.aws/config or ~/.aws/credentials
AwsFileChanges ==
    /\ cache_pc = "idle"
    /\ \E f \in Range(AwsSources) : \E data \in {Absent, "v1"} :
         /\ data # aws_files[f]
         /\ aws_files' = [aws_files EXCEPT ![f] = data]
    /\ UNCHANGED <<cache_file, now, cache_ttl, cache_pc, cache_input, last_save,
                   load_result, load_call, cacheFrame>>

\* the cache file is replaced or removed behind the back of the service
CacheFileReplaced ==
    /\ cache_pc = "idle"
    /\ \E file \in {NoFile} \cup {<<doc>> : doc \in ForeignDocs(_aws_config_hash(aws_files))} :
         /\ file # cache_file
         /\ cache_file' = file
    /\ last_save' = NoSave
    /\ UNCHANGED <<aws_files, now, cache_ttl, cache_pc, cache_input, load_result, load_call,
                   cacheFrame>>

(***************************************************************************)
(* awss/s3.py : save_bucket_cache step by step.                            *)
(* The application runs save_bucket_cache and load_bucket_cache in worker  *)
(* threads (asyncio.to_thread), so a read of the cache path may fall       *)
(* between any two file operations of a save.  The text of a file that is  *)
(* being written is no JSON until its last byte is there.                  *)
(***************************************************************************)
TargetPath == "bucket-cache.json"

\* mutant: the payload is written to the cache path itself
temp_path_is_target == TargetPath

\* self._bucket_cache_path.with_suffix(".tmp")
temp_path == "bucket-cache.tmp"

Paths == {TargetPath, "bucket-cache.tmp"}

\* a file just opened for writing, and a file holding part of a text
EmptyText == ForeignDoc("invalid", "list", JsonNullTime, NoHash, << >>)
Truncated(doc) == [doc EXCEPT !.json = "invalid"]

Readers == 1..MaxReaders

IdleSaver == [pc |-> "idle", text |-> EmptyText, previous |-> NoFile, ok |-> FALSE]
IdleReader == [pc |-> "idle", seen |-> NoFile]

AtomicIdle ==
    /\ fs = [path \in Paths |-> NoFile]
    /\ saver = IdleSaver
    /\ readers = [r \in Readers |-> IdleReader]

\* no thread saves or reads the cache file: its variables hold nothing
AtomicUnused ==
    /\ fs = << >>
    /\ saver = << >>
    /\ readers = << >>

\* save_bucket_cache is entered: rows and payload are built, the directory
\* is made, the text is serialised
SaveEnter ==
    /\ saver.pc = "idle"
    /\ saver' = [pc |-> "open", text |-> JsonDumps(CachePayload(cache_input, now, aws_files)),
                 previous |-> fs[TargetPath], ok |-> FALSE]
    /\ UNCHANGED <<fs, readers, atomicFrame>>

\* write_text opens the temporary path, truncating it
SaveOpen ==
    /\ saver.pc = "open"
    /\ fs' = [fs EXCEPT ![temp_path] = <<EmptyText>>]
    /\ saver' = [saver EXCEPT !.pc = "write"]
    /\ UNCHANGED <<readers, atomicFrame>>

\* part of the text has reached the file
SaveWritePart ==
    /\ saver.pc = "write"
    /\ fs' = [fs EXCEPT ![temp_path] = <<Truncated(saver.text)>>]
    /\ saver' = [saver EXCEPT !.pc = "flush"]
    /\ UNCHANGED <<readers, atomicFrame>>

\* the rest of the text has reached the file and it is closed
SaveWriteRest ==
    /\ saver.pc = "flush"
    /\ fs' = [fs EXCEPT ![temp_path] = <<saver.text>>]
    /\ saver' = [saver EXCEPT !.pc = "replace"]
    /\ UNCHANGED <<readers, atomicFrame>>

\* temp_path.replace(self._bucket_cache_path): one atomic rename; True is returned
SaveReplace ==
    /\ saver.pc = "replace"
    /\ fs' = IF temp_path = TargetPath THEN fs
             ELSE [fs EXCEPT ![TargetPath] = fs[temp_path], ![temp_path] = NoFile]
    /\ saver' = [saver EXCEPT !.pc = "returned", !.ok = TRUE]
    /\ UNCHANGED <<readers, atomicFrame>>

\* a file operation raises: "except Exception: return False"
SaveFails ==
    /\ saver.pc \in {"open", "write", "flush", "replace"}
    /\ saver' = [saver EXCEPT !.pc = "returned", !.ok = FALSE]
    /\ UNCHANGED <<fs, readers, atomicFrame>>

\* the caller has the result; the next save may start
SaveLeave ==
    /\ saver.pc = "returned"
    /\ saver' = IdleSaver
    /\ UNCHANGED <<fs, readers, atomicFrame>>

\* self._bucket_cache_path.read_text() in _read_bucket_cache
ReaderReads(r) ==
    /\ readers[r].pc = "idle"
    /\ readers' = [readers EXCEPT ![r] = [pc |-> "read", seen |-> fs[TargetPath]]]
    /\ UNCHANGED <<fs, saver, atomicFrame>>

\* the read is over
ReaderLeaves(r) ==
    /\ readers[r].pc = "read"
    /\ readers' = [readers EXCEPT ![r] = IdleReader]
    /\ UNCHANGED <<fs, saver, atomicFrame>>

(***************************************************************************)
(* awss/app.py : the preview pane.                                         *)
(* _load_preview, _load_more_preview, _load_prefix_stats and               *)
(* _load_deep_prefix_stats take a preview token, await the service and     *)
(* apply the response.  A header is the path shown with the bytes loaded   *)
(* and the total; a text is the list of its parts; None is -1 for a total  *)
(* and the row NoRow for a row.                                            *)
(***************************************************************************)
NoRow == [kind |-> "none", key |-> ""]
ObjectRows == {[kind |-> "object", key |-> "k1"], [kind |-> "object", key |-> "k2"]}
PrefixRows == {[kind |-> "prefix", key |-> "p1/"]}

NoTotal == 0 - 1
NoStats == "none"
NoHeader == [path |-> "", loaded |-> 0, total |-> NoTotal]
PathHeader(info) == [path |-> info.key, loaded |-> 0, total |-> NoTotal]

\* _reset_preview
EmptyPreview ==
    [header |-> NoHeader, text |-> << >>, button |-> "More hidden", status |-> "",
     key |-> NoRow, content |-> << >>, next_start |-> 0, total |-> NoTotal,
     truncated |-> FALSE, stats_info |-> NoRow, stats_shallow |-> NoStats,
     stats_deep |-> NoStats]

\* _clear_stats_state
_clear_stats_state(p) ==
    [p EXCEPT !.stats_info = NoRow, !.stats_shallow = NoStats, !.stats_deep = NoStats]

\* _render_preview
_render_preview(p0) ==
    IF p0.key = NoRow THEN [p0 EXCEPT !.header = NoHeader, !.text = << >>]
    ELSE LET p == _clear_stats_state(p0)
         IN [p EXCEPT
               !.header = [path |-> p.key.key, loaded |-> p.next_start, total |-> p.total],
               !.text = p.content \o (IF p.truncated THEN <<"MORE AVAILABLE">> ELSE << >>),
               !.button = IF p.truncated THEN "More" ELSE "More hidden",
               !.status = IF p.total > 0 THEN "loaded/total" ELSE "loaded"]

\* _render_prefix_stats(info, shallow, deep)
_render_prefix_stats(p, info, shallow, deep) ==
    [p EXCEPT
       !.header = PathHeader(info),
       !.text = <<"Folders, Files, Total size", shallow>> \o
                    (IF deep = NoStats THEN <<"press 'm' to scan">> ELSE <<deep>>),
       !.button = IF deep = NoStats THEN "Scan" ELSE "Scan hidden",
       !.status = "dirs, files",
       !.key = NoRow, !.content = << >>, !.next_start = 0, !.total = NoTotal,
       !.truncated = FALSE,
       !.stats_info = info, !.stats_shallow = shallow, !.stats_deep = deep]

\* what the service answers: a value or an exception
ObjectResponses ==
    {[raised |-> FALSE, data |-> "bytes", total |-> NoTotal, truncated |-> FALSE],
     [raised |-> FALSE, data |-> "bytes", total |-> 2, truncated |-> TRUE],
     [raised |-> TRUE, data |-> "AccessDenied", total |-> NoTotal, truncated |-> FALSE]}
StatsResponses ==
    {[raised |-> FALSE, data |-> "counted", total |-> NoTotal, truncated |-> FALSE],
     [raised |-> TRUE, data |-> "AccessDenied", total |-> NoTotal, truncated |-> FALSE]}

Loads == 1..MaxLoads
IdleLoad == [pc |-> "idle", kind |-> "none", token |-> 0, info |-> NoRow, shallow |-> NoStats,
             start |-> 0, applied |-> FALSE]

PreviewIdle ==
    /\ preview_token = 0
    /\ preview = EmptyPreview
    /\ loads = [i \in Loads |-> IdleLoad]

\* there is no preview pane: its variables hold nothing
PreviewUnused ==
    /\ preview_token = << >>
    /\ preview = << >>
    /\ loads = << >>

\* mutant: a response is applied whatever its token
IsStaleNever(token, current) == FALSE

\* "if token != self._preview_token: return"
IsStale(token, current) == token # current

\* a load takes the next token
Issue(i, kind, info, shallow, start) ==
    /\ loads[i].pc = "idle"
    /\ preview_token < MaxIssued
    /\ preview_token' = preview_token + 1
    /\ loads' = [loads EXCEPT ![i] =
                    [pc |-> "await", kind |-> kind, token |-> preview_token + 1, info |-> info,
                     shallow |-> shallow, start |-> start, applied |-> FALSE]]

\* the load is over: applied says whether the response was applied
Finish(i, applied) == loads' = [loads EXCEPT ![i].pc = "done", ![i].applied = applied]

\* _load_preview up to its await
LoadPreviewStart(i) ==
    /\ \E info \in ObjectRows : Issue(i, "preview", info, NoStats, 0)
    /\ preview' = [_clear_stats_state(preview) EXCEPT
                      !.header = NoHeader, !.text = <<"Loading preview...">>,
                      !.button = "More hidden"]
    /\ UNCHANGED previewFrame

\* _load_preview from the answer of get_object_head
LoadPreviewFinish(i) ==
    /\ loads[i].pc = "await" /\ loads[i].kind = "preview"
    /\ \E r \in ObjectResponses :
         IF IsStale(loads[i].token, preview_token)
         THEN /\ Finish(i, FALSE)
              /\ UNCHANGED preview
         ELSE /\ Finish(i, TRUE)
              /\ preview' =
                    IF r.raised
                    THEN [preview EXCEPT !.header = NoHeader, !.text = <<"Error", r.data>>]
                    ELSE _render_preview([preview EXCEPT
                             !.key = loads[i].info, !.content = <<r.data>>, !.next_start = 1,
                             !.total = r.total, !.truncated = r.truncated])
    /\ UNCHANGED <<preview_token, previewFrame>>

\* _load_more_preview up to its await
LoadMoreStart(i) ==
    /\ preview.key # NoRow
    /\ Issue(i, "more", preview.key, NoStats, preview.next_start)
    /\ UNCHANGED <<preview, previewFrame>>

\* _load_more_preview from the answer of get_object_range
LoadMoreFinish(i) ==
    /\ loads[i].pc = "await" /\ loads[i].kind = "more"
    /\ \E r \in ObjectResponses :
         IF IsStale(loads[i].token, preview_token)
         THEN /\ Finish(i, FALSE)
              /\ UNCHANGED preview
         ELSE /\ Finish(i, TRUE)
              /\ preview' =
                    IF r.raised
                    THEN [preview EXCEPT !.header = NoHeader, !.text = <<"Error", r.data>>]
                    ELSE _render_preview([preview EXCEPT
                             !.content = @ \o <<r.data>>, !.next_start = @ + 1,
                             !.total = IF r.total # NoTotal THEN r.total ELSE @,
                             !.truncated = r.truncated])
    /\ UNCHANGED <<preview_token, previewFrame>>

\* _load_prefix_stats up to its await
LoadStatsStart(i) ==
    /\ \E info \in PrefixRows : 
         /\ Issue(i, "stats", info, NoStats, 0)
         /\ preview' = [_clear_stats_state(preview) EXCEPT
                           !.key = NoRow, !.content = << >>, !.next_start = 0,
                           !.total = NoTotal, !.truncated = FALSE,
                           !.button = "Scan disabled", !.status = "",
                           !.header = PathHeader(info), !.text = <<"Loading stats...">>]
    /\ UNCHANGED previewFrame

\* _load_prefix_stats from the answer of list_prefixes_and_objects
LoadStatsFinish(i) ==
    /\ loads[i].pc = "await" /\ loads[i].kind = "stats"
    /\ \E r \in StatsResponses :
         IF IsStale(loads[i].token, preview_token)
         THEN /\ Finish(i, FALSE)
              /\ UNCHANGED preview
         ELSE /\ Finish(i, TRUE)
              /\ preview' =
                    IF r.raised
                    THEN [preview EXCEPT !.header = PathHeader(loads[i].info),
                                         !.text = <<"Error", r.data>>]
                    ELSE _render_prefix_stats(preview, loads[i].info, "shallow", NoStats)
    /\ UNCHANGED <<preview_token, previewFrame>>

\* _load_deep_prefix_stats up to its await
LoadDeepStart(i) ==
    /\ preview.stats_info # NoRow /\ preview.stats_shallow # NoStats
    /\ Issue(i, "deep", preview.stats_info, preview.stats_shallow, 0)
    /\ preview' = [preview EXCEPT !.header = PathHeader(preview.stats_info),
                                  !.text = <<"Scanning recursive stats...">>,
                                  !.button = "Scan disabled"]
    /\ UNCHANGED previewFrame

\* _load_deep_prefix_stats from the answer of scan_prefix_recursive
LoadDeepFinish(i) ==
    /\ loads[i].pc = "await" /\ loads[i].kind = "deep"
    /\ \E r \in StatsResponses :
         IF IsStale(loads[i].token, preview_token)
         THEN /\ Finish(i, FALSE)
              /\ UNCHANGED preview
         ELSE /\ Finish(i, TRUE)
              /\ preview' =
                    IF r.raised
                    THEN [preview EXCEPT !.header = PathHeader(loads[i].info),
                                         !.text = <<"Error", r.data>>, !.button = "Scan"]
                    ELSE _render_prefix_stats(preview, loads[i].info, loads[i].shallow, "deep")
    /\ UNCHANGED <<preview_token, previewFrame>>

\* the coroutine has returned
LoadLeave(i) ==
    /\ loads[i].pc = "done"
    /\ loads' = [loads EXCEPT ![i] = IdleLoad]
    /\ UNCHANGED <<preview_token, preview, previewFrame>>

\* show_bucket_list: the token is advanced and the preview reset
ShowBucketList ==
    /\ preview_token < MaxIssued
    /\ preview_token' = preview_token + 1
    /\ preview' = EmptyPreview
    /\ UNCHANGED <<loads, previewFrame>>

(***************************************************************************)
(* awss/app.py : show_prefix, the content load of one folder.              *)
(* One bucket is browsed; it is known under a profile with an access       *)
(* level.  A node of the tree is named by its prefix.  An invocation runs  *)
(* from one await to the next in one step.  No speculative path is pending *)
(* (navigate_to is not part of this model) and no history navigation has   *)
(* asked to suppress the next history entry, so `_pending_target_node is   *)
(* node` and suppress_history are false throughout.                        *)
(***************************************************************************)
NavBucket == "bucket-a"
NavProfiles == <<"dev", "prod">>
NavPrefixes == {"a/", "b/"}
AccessValues == {"good", "no_view", "no_download"}

NodeInfo(profile, prefix) == [profile |-> profile, bucket |-> NavBucket, prefix |-> prefix]
NoContext == [profile |-> "", bucket |-> "", prefix |-> ""]

\* the rows of the table: one per sub-folder, one per object, or a notice
TableRow(kind, profile, key, tried) ==
    [kind |-> kind, profile |-> profile, key |-> key, tried |-> tried]
LoadingRow == TableRow("loading", "", "", << >>)
ErrorRow(tried) == TableRow("error", "", "", tried)

\* what list_prefixes_and_objects answers for a prefix
ChildOf(prefix) == IF prefix = "a/" THEN "a/x/" ELSE "b/x/"
KeyOf(prefix) == IF prefix = "a/" THEN "a/k" ELSE "b/k"
NoListing == [raised |-> FALSE, prefixes |-> << >>, objects |-> << >>, has_any |-> FALSE]
ListResponses(prefix) ==
    {[raised |-> FALSE, prefixes |-> <<ChildOf(prefix)>>, objects |-> <<KeyOf(prefix)>>,
      has_any |-> TRUE],
     NoListing,
     [raised |-> TRUE, prefixes |-> << >>, objects |-> << >>, has_any |-> FALSE]}

Shows == 1..MaxShows
IdleShow ==
    [pc |-> "idle", node |-> "", info |-> NoContext, token |-> 0, listing |-> NoListing,
     attempted |-> << >>]

NavIdle ==
    /\ content_token = 0
    /\ table = << >>
    /\ content_rows = << >>
    /\ current_context = NoContext
    /\ history = << >>
    /\ children = [p \in NavPrefixes |-> {}]
    /\ bucket = [profile |-> "dev", access |-> "good"]
    /\ shows = [i \in Shows |-> IdleShow]

\* there is no content table: its variables hold nothing
NavUnused ==
    /\ content_token = << >>
    /\ table = << >>
    /\ content_rows = << >>
    /\ current_context = << >>
    /\ history = << >>
    /\ children = << >>
    /\ bucket = << >>
    /\ shows = << >>

\* _profile_for_bucket and _bucket_access_for_name, for the one bucket
_profile_for_bucket == bucket.profile
_bucket_access_for_name == bucket.access

\* _profile_candidates_for_bucket: the profiles in the order of the service
_profile_candidates_for_bucket == NavProfiles

\* _switch_bucket_profile: the bucket, its node and the prefix nodes move to
\* new_profile, and the access becomes new_access
_switch_bucket_profile(old_profile, new_profile, new_access) ==
    IF old_profile = new_profile
    THEN [profile |-> bucket.profile, access |-> new_access]
    ELSE [profile |-> new_profile, access |-> new_access]

\* _sync_prefix_children: the children the node lacks are added
_sync_prefix_children(node, prefixes) ==
    [children EXCEPT ![node] = children[node] \cup {prefixes[k] : k \in 1..Len(prefixes)}]

\* _record_history
_record_history(context) ==
    IF history # << >> /\ history[Len(history)] = context
    THEN history
    ELSE Append(history, context)

\* the rows show_prefix builds: the prefixes sorted, then the objects sorted
\* (a listing holds one entry of each kind at most, which sorted() keeps)
ContentRows(info, listing) ==
    [k \in 1..Len(listing.prefixes) |->
        TableRow("prefix", info.profile, listing.prefixes[k], << >>)]
    \o [k \in 1..Len(listing.objects) |->
        TableRow("object", info.profile, listing.objects[k], << >>)]

\* _collect_prefix_stats
_collect_prefix_stats(listing) ==
    IF listing.prefixes = << >> /\ listing.objects = << >> THEN "nothing" ELSE "counted"

\* lines 2029-2040: the profile of the bucket is taken, then the await of
\* _resolve_profile_for_bucket_access
ShowPrefix(i, prefix) ==
    /\ shows[i].pc = "idle"
    /\ content_token + Cardinality({j \in Shows : shows[j].pc = "resolve"}) < MaxIssued
    /\ shows' = [shows EXCEPT ![i] =
                    [IdleShow EXCEPT !.pc = "resolve", !.node = prefix,
                                     !.info = NodeInfo(_profile_for_bucket, prefix)]]
    /\ UNCHANGED <<content_token, table, content_rows, current_context, history, children,
                   bucket, preview_token, preview, loads, navFrame>>

\* lines 2041-2080: the resolved profile is adopted, the context and both
\* tokens move on, the table shows "Loading...", then the await of the list
ResolveReturns(i) ==
    /\ shows[i].pc = "resolve"
    /\ \E p \in 1..Len(NavProfiles), resolved_access \in {"good", "no_view"} :
         LET resolved_profile == NavProfiles[p]
             old == shows[i].info
             changed == resolved_profile # old.profile
                           \/ _bucket_access_for_name # resolved_access
             info == IF changed THEN NodeInfo(resolved_profile, old.prefix) ELSE old
         IN /\ bucket' = IF changed
                         THEN _switch_bucket_profile(old.profile, resolved_profile,
                                                     resolved_access)
                         ELSE bucket
            /\ current_context' = info
            /\ shows' = [shows EXCEPT ![i].pc = "list", ![i].info = info,
                                      ![i].token = content_token + 1]
    /\ preview_token' = preview_token + 1
    /\ content_token' = content_token + 1
    /\ table' = <<LoadingRow>>
    /\ UNCHANGED <<content_rows, history, children, preview, loads, navFrame>>

\* lines 2165-2219: the rows, the children of the node, the folder summary
\* and the history entry of a listing
ApplyListing(i, info, listing) ==
    /\ table' = ContentRows(info, listing)
    /\ content_rows' = ContentRows(info, listing)
    /\ children' = _sync_prefix_children(shows[i].node, listing.prefixes)
    /\ preview' = _render_prefix_stats(preview, [kind |-> "prefix", key |-> info.prefix],
                                       _collect_prefix_stats(listing), NoStats)
    /\ history' = _record_history(info)

\* "if token != self._content_token" (line 2161)
IsSuperseded(token, current) == token # current

\* lines 2148-2219, once the listing and the access level are known
ShowTail(i, info, listing) ==
    IF (~listing.has_any /\ info.prefix # "") \/ IsSuperseded(shows[i].token, content_token)
    THEN UNCHANGED <<table, content_rows, children, preview, history>>
    ELSE ApplyListing(i, info, listing)

\* line 2125: a bucket that could not be viewed has its access asked again,
\* which is one more await; otherwise the tail runs at once
AfterListing(i, info, listing) ==
    IF _bucket_access_for_name = "no_view"
    THEN /\ shows' = [shows EXCEPT ![i].pc = "access", ![i].info = info,
                                   ![i].listing = listing]
         /\ UNCHANGED <<table, content_rows, children, preview, history>>
    ELSE /\ shows' = [shows EXCEPT ![i] = IdleShow]
         /\ ShowTail(i, info, listing)

\* lines 2080-2086 and 2125-2219: the list returns
ListReturns(i) ==
    /\ shows[i].pc = "list"
    /\ \E listing \in ListResponses(shows[i].info.prefix) :
         /\ ~listing.raised
         /\ AfterListing(i, shows[i].info, listing)
    /\ UNCHANGED <<content_token, current_context, bucket, preview_token, loads, navFrame>>

\* lines 2087-2088 and 1980-1993: the list raises and
\* _try_bucket_profile_fallback awaits the list under the next candidate
ListRaises(i) ==
    /\ shows[i].pc = "list"
    /\ shows' = [shows EXCEPT ![i].pc = "fallback"]
    /\ UNCHANGED <<content_token, table, content_rows, current_context, history, children,
                   bucket, preview_token, preview, loads, navFrame>>

\* the candidates _try_bucket_profile_fallback tries, in order
FallbackCandidates(info) ==
    SelectSeq(_profile_candidates_for_bucket, LAMBDA p : p # info.profile)

\* lines 1994-1995, 2026 and 2091-2123: every candidate raises, the
\* fallback returns None and the table shows the error row
FallbackFails(i) ==
    /\ shows[i].pc = "fallback"
    /\ LET tried == <<shows[i].info.profile>> \o FallbackCandidates(shows[i].info)
       IN /\ table' = <<ErrorRow(tried)>>
          /\ content_rows' = <<ErrorRow(tried)>>
    /\ shows' = [shows EXCEPT ![i] = IdleShow]
    /\ UNCHANGED <<content_token, current_context, history, children, bucket,
                   preview_token, preview, loads, navFrame>>

\* lines 1996-2008: a candidate lists the prefix; its access is awaited
FallbackLists(i) ==
    /\ shows[i].pc = "fallback"
    /\ FallbackCandidates(shows[i].info) # << >>
    /\ \E listing \in ListResponses(shows[i].info.prefix) :
         /\ ~listing.raised
         /\ shows' = [shows EXCEPT ![i].pc = "fallback_access", ![i].listing = listing,
                         ![i].attempted = <<FallbackCandidates(shows[i].info)[1]>>]
    /\ UNCHANGED <<content_token, table, content_rows, current_context, history, children,
                   bucket, preview_token, preview, loads, navFrame>>

\* lines 2009-2024: the bucket moves to the candidate, which becomes the
\* context; then the await of save_bucket_cache
FallbackSwitches(i) ==
    /\ shows[i].pc = "fallback_access"
    /\ \E access \in AccessValues :
         LET profile == shows[i].attempted[1]
             new_info == NodeInfo(profile, shows[i].info.prefix)
         IN /\ bucket' = _switch_bucket_profile(shows[i].info.profile, profile, access)
            /\ current_context' = new_info
            /\ shows' = [shows EXCEPT ![i].pc = "fallback_save", ![i].info = new_info]
    /\ UNCHANGED <<content_token, table, content_rows, history, children,
                   preview_token, preview, loads, navFrame>>

\* lines 2025, 2089-2090 and 2125-2219: the fallback returns its listing
FallbackReturns(i) ==
    /\ shows[i].pc = "fallback_save"
    /\ AfterListing(i, shows[i].info, shows[i].listing)
    /\ UNCHANGED <<content_token, current_context, bucket, preview_token, loads, navFrame>>

\* lines 2129-2219: bucket_access returns (NO_DOWNLOAD when it raises or
\* answers NO_VIEW), the access of the bucket is updated and the tail runs
AccessReturns(i) ==
    /\ shows[i].pc = "access"
    /\ \E answer \in AccessValues :
         LET access == IF answer = "no_view" THEN "no_download" ELSE answer
         IN bucket' = _switch_bucket_profile(shows[i].info.profile, shows[i].info.profile,
                                             access)
    /\ shows' = [shows EXCEPT ![i] = IdleShow]
    /\ ShowTail(i, shows[i].info, shows[i].listing)
    /\ UNCHANGED <<content_token, current_context, preview_token, loads, navFrame>>

(***************************************************************************)
(* awss/s3.py : _list_prefixes_and_objects and _scan_prefix_recursive.     *)
(* A key is the sequence of its "/"-separated segments, so "p/a/k" is      *)
(* <<"p", "a", "k">> and a key that ends with "/" has "" as its last       *)
(* segment.  The bucket holds keys under the prefix "p/" in key order; the *)
(* storage service answers a listing one page at a time, and the           *)
(* continuation token of a page is the number of entries before it (None   *)
(* is 0, which `if continuation:` takes for false as well).                *)
(***************************************************************************)
KeyPool ==
    << <<"p", "">>, <<"p", "a", "">>, <<"p", "a", "k">>, <<"p", "c", "x">>,
       <<"p", "k1">>, <<"p", "k2">> >>

\* an object of the bucket: "Key", "Size", "LastModified"
ObjectAt(i) == [kind |-> "content", key |-> KeyPool[i], size |-> i, last_modified |-> i]

\* the buckets: every choice of keys from the pool, in key order
ListData ==
    {[k \in 1..Len(picked) |-> ObjectAt(picked[k])] :
        picked \in {SelectSeq([i \in 1..Len(KeyPool) |-> i], LAMBDA i : i \in S) :
                        S \in SUBSET (1..Len(KeyPool))}}

ScanPrefixes == {<<"p">>, <<"p", "">>}
NoLimit == 0 - 1
NoModified == 0

\* key.endswith("/")
EndsWithSlash(key) == key[Len(key)] = ""

\* prefix + "/" when the prefix lacks it (lines 790-792)
BasePrefix(prefix) ==
    IF prefix # << >> /\ ~EndsWithSlash(prefix) THEN prefix \o <<"">> ELSE prefix

\* key.startswith(base), for a base that ends with "/"
StartsWith(key, base) ==
    /\ Len(key) >= Len(base)
    /\ SubSeq(key, 1, Len(base) - 1) = SubSeq(base, 1, Len(base) - 1)

\* key[len(base_prefix):] if base_prefix and key.startswith(base_prefix) else key
Relative(key, base) ==
    IF base # << >> /\ StartsWith(key, base) THEN SubSeq(key, Len(base), Len(key)) ELSE key

\* the ancestors of a relative path: every non-empty part but the last
\* extends the path, and every path is a sub-directory (lines 837-844)
RECURSIVE Ancestors(_, _)
Ancestors(path, parts) ==
    IF parts = << >> THEN {}
    ELSE IF Head(parts) = "" THEN Ancestors(path, Tail(parts))
    ELSE {Append(path, Head(parts))} \cup Ancestors(Append(path, Head(parts)), Tail(parts))
SubdirsOf(relative) ==
    IF Len(relative) >= 2 THEN Ancestors(<< >>, SubSeq(relative, 1, Len(relative) - 1))
    ELSE {}

\* what the service lists with Delimiter "/": the keys with a "/" after the
\* prefix are rolled up into one common prefix each, in key order
RECURSIVE RollUp(_, _, _)
RollUp(objects, base, last) ==
    IF objects = << >> THEN << >>
    ELSE LET relative == Relative(Head(objects).key, base)
             common == SubSeq(base, 1, Len(base) - 1) \o <<relative[1], "">>
         IN IF Len(relative) >= 2
            THEN IF common = last THEN RollUp(Tail(objects), base, last)
                 ELSE <<[kind |-> "prefix", key |-> common, size |-> 0, last_modified |-> 0]>>
                          \o RollUp(Tail(objects), base, common)
            ELSE <<Head(objects)>> \o RollUp(Tail(objects), base, last)

OfKind(entries, kind) == SelectSeq(entries, LAMBDA e : e.kind = kind)

\* client.list_objects_v2(**kwargs): the page that starts at the token
list_objects_v2(entries, size, continuation) ==
    LET last == IF continuation + size < Len(entries) THEN continuation + size
                ELSE Len(entries)
        page == SubSeq(entries, continuation + 1, last)
    IN [CommonPrefixes |-> OfKind(page, "prefix"), Contents |-> OfKind(page, "content"),
        IsTruncated |-> last < Len(entries), NextContinuationToken |-> last]

\* mutant: the list starts over with every page
ExtendReplaces(list, items) == items

\* list.append(...) for each of the items
Extend(list, items) == list \o items

\* the keys of a page that count as objects (lines 694-701 and 816-822)
IsObject(entry, prefix) ==
    /\ entry.key # << >>
    /\ ~EndsWithSlash(entry.key)
    /\ ~(prefix # << >> /\ entry.key = prefix)

IdleLister ==
    [pc |-> "idle", op |-> "none", prefix |-> << >>, max_keys |-> NoLimit, continuation |-> 0,
     requests |-> << >>, prefixes |-> << >>, objects |-> << >>, has_any |-> FALSE,
     file_count |-> 0, total_size |-> 0, latest_modified |-> NoModified, subdirs |-> {},
     scanned |-> 0, truncated |-> FALSE, limit_reached |-> FALSE]

\* no listing runs: its variables hold nothing
ListUnused ==
    /\ list_data = << >>
    /\ page_size = << >>
    /\ lister = << >>

\* a listing that takes only the entries it returns for a sign of existence
AbsorbReturnedOnly(l, response) ==
    [l EXCEPT
       !.prefixes = Extend(l.prefixes, [k \in 1..Len(response.CommonPrefixes) |->
                                           response.CommonPrefixes[k].key]),
       !.objects = Extend(l.objects,
                          SelectSeq(response.Contents, LAMBDA e : IsObject(e, l.prefix))),
       !.has_any = \/ l.has_any
                   \/ response.CommonPrefixes # << >>
                   \/ SelectSeq(response.Contents, LAMBDA e : IsObject(e, l.prefix)) # << >>]

\* lines 686-709: one response of the shallow listing is taken in
AbsorbListing(l, response) ==
    [l EXCEPT
       !.prefixes = Extend(l.prefixes, [k \in 1..Len(response.CommonPrefixes) |->
                                           response.CommonPrefixes[k].key]),
       !.objects = Extend(l.objects,
                          SelectSeq(response.Contents, LAMBDA e : IsObject(e, l.prefix))),
       !.has_any = l.has_any \/ response.CommonPrefixes # << >> \/ response.Contents # << >>]

\* lines 811-844: the contents of one response of the deep scan, entry by
\* entry, up to the limit
RECURSIVE ScanContents(_, _)
ScanContents(l, contents) ==
    IF contents = << >> THEN l
    ELSE IF l.max_keys # NoLimit /\ l.scanned >= l.max_keys
    THEN [l EXCEPT !.truncated = TRUE, !.limit_reached = TRUE]
    ELSE LET entry == Head(contents)
         IN IF ~IsObject(entry, l.prefix) THEN ScanContents(l, Tail(contents))
            ELSE ScanContents(
                   [l EXCEPT
                      !.file_count = l.file_count + 1,
                      !.total_size = l.total_size + entry.size,
                      !.scanned = l.scanned + 1,
                      !.latest_modified =
                          IF entry.last_modified # NoModified
                                /\ (l.latest_modified = NoModified
                                      \/ entry.last_modified > l.latest_modified)
                          THEN entry.last_modified ELSE l.latest_modified,
                      !.subdirs = l.subdirs \cup SubdirsOf(Relative(entry.key, l.prefix))],
                   Tail(contents))

\* lines 668-675: _list_prefixes_and_objects(profile, bucket, "p/")
ListStart ==
    /\ lister.pc = "idle"
    /\ lister' = [IdleLister EXCEPT !.pc = "loop", !.op = "shallow", !.prefix = <<"p", "">>]
    /\ UNCHANGED <<list_data, page_size, listFrame>>

\* lines 676-714: one turn of the loop; the last one returns
ListPage ==
    /\ lister.pc = "loop"
    /\ lister.op = "shallow"
    /\ LET response == list_objects_v2(RollUp(list_data, lister.prefix, << >>), page_size,
                                       lister.continuation)
           l == AbsorbListing([lister EXCEPT
                                  !.requests = Append(lister.requests, lister.continuation)],
                              response)
       IN lister' = IF response.IsTruncated
                    THEN [l EXCEPT !.continuation = response.NextContinuationToken]
                    ELSE [l EXCEPT !.pc = "returned"]
    /\ UNCHANGED <<list_data, page_size, listFrame>>

\* lines 782-800: _scan_prefix_recursive(profile, bucket, prefix, max_keys)
ScanStart(prefix, max_keys) ==
    /\ lister.pc = "idle"
    /\ lister' = [IdleLister EXCEPT !.pc = "loop", !.op = "deep",
                                    !.prefix = BasePrefix(prefix), !.max_keys = max_keys]
    /\ UNCHANGED <<list_data, page_size, listFrame>>

\* lines 801-851: one turn of the loop; the last one returns
ScanPage ==
    /\ lister.pc = "loop"
    /\ lister.op = "deep"
    /\ LET response == list_objects_v2(list_data, page_size, lister.continuation)
           l == ScanContents([lister EXCEPT
                                 !.requests = Append(lister.requests, lister.continuation)],
                             response.Contents)
       IN lister' = IF ~l.limit_reached /\ response.IsTruncated
                    THEN [l EXCEPT !.continuation = response.NextContinuationToken]
                    ELSE [l EXCEPT !.pc = "returned"]
    /\ UNCHANGED <<list_data, page_size, listFrame>>

\* the caller has the result
ListerDone ==
    /\ lister.pc = "returned"
    /\ lister' = IdleLister
    /\ UNCHANGED <<list_data, page_size, listFrame>>

(***************************************************************************)
(* Inputs of select_best_bucket_profiles: a configuration (named profiles  *)
(* in a fixed order with the default profile at any position or absent)    *)
(* and the result of list_buckets_all (per profile, in configuration       *)
(* order, the buckets that profile listed).                                *)
(***************************************************************************)
InsertAt(s, i, x) == SubSeq(s, 1, i - 1) \o <<x>> \o SubSeq(s, i, Len(s))

Configs ==
    UNION {{SubSeq(NamedPool, 1, n)}
             \cup {InsertAt(SubSeq(NamedPool, 1, n - 1), i, None) : i \in 1..n}
           : n \in 1..Min2(MaxProfiles, Len(NamedPool))}

BucketIds == 1..Min2(MaxBuckets, Len(BucketPool))

ListingOf(ps, f) ==
    Flatten([p \in DOMAIN ps |->
                LET ids == SetToSeq(f[p])
                IN [k \in DOMAIN ids |->
                       BucketInfo(BucketPool[ids[k]], ps[p], BUCKET_ACCESS_UNKNOWN, FALSE)]])

Listings(ps) ==
    {ListingOf(ps, f) : f \in {g \in [DOMAIN ps -> SUBSET BucketIds] :
        Cardinality(UNION {g[p] : p \in DOMAIN ps}) * Len(ps) <= MaxProbes}}

(***************************************************************************)
(* awss/s3.py : list_buckets_all.                                          *)
(* One _list_buckets thread per configured profile; each returns the names *)
(* it listed or raises, in any order; gather hands the outcomes back in    *)
(* the order of the profiles.                                              *)
(***************************************************************************)
ListErrors == {"ErrAccessDenied", "ErrSsoSession"}
NoAnswer == [state |-> "pending", raised |-> FALSE, error |-> "NoError", names |-> << >>]

\* what one _list_buckets thread can deliver
ListAnswers ==
    {[state |-> "done", raised |-> TRUE, error |-> e, names |-> << >>] : e \in ListErrors}
        \cup {[state |-> "done", raised |-> FALSE, error |-> "NoError",
                names |-> [k \in DOMAIN SetToSeq(ids) |-> BucketPool[SetToSeq(ids)[k]]]] :
                 ids \in SUBSET BucketIds}

IdleListAll == [pc |-> "idle", results |-> << >>, buckets |-> << >>, errors |-> << >>]

ListAllIdle == lba = IdleListAll

\* list_buckets_all is not called: its variables hold nothing
ListAllUnused ==
    /\ lba = << >>

\* mutant: gather lets the first exception through
ListGatherPropagates == FALSE

\* return_exceptions=True at line 608
ListGatherReturnsExceptions == TRUE

\* lines 609-622: the loop over zip(self.profiles, results)
RECURSIVE CollectBuckets(_, _)
CollectBuckets(ps, results) ==
    IF ps = << >> THEN [buckets |-> << >>, errors |-> << >>]
    ELSE LET rest == CollectBuckets(Tail(ps), Tail(results))
             result == Head(results)
         IN IF result.raised
            THEN [rest EXCEPT !.errors = <<[profile |-> Head(ps), error |-> result.error]>> \o @]
            ELSE [rest EXCEPT !.buckets =
                     [k \in DOMAIN result.names |->
                         BucketInfo(result.names[k], Head(ps), BUCKET_ACCESS_UNKNOWN, FALSE)]
                     \o @]

\* lines 605-608: the threads are started and gather is awaited
ListBucketsAll ==
    /\ lba.pc = "idle"
    /\ lba' = [IdleListAll EXCEPT !.pc = "gather", !.results = [i \in DOMAIN profiles |-> NoAnswer]]
    /\ UNCHANGED <<profiles, listAllFrame>>

\* the _list_buckets thread of one profile ends
ListBucketsThread(i) ==
    /\ lba.pc = "gather"
    /\ lba.results[i].state = "pending"
    /\ \E answer \in ListAnswers : lba' = [lba EXCEPT !.results[i] = answer]
    /\ UNCHANGED <<profiles, listAllFrame>>

\* lines 608-623: gather returns once every thread has ended
ListBucketsCollect ==
    /\ lba.pc = "gather"
    /\ \A i \in DOMAIN lba.results : lba.results[i].state = "done"
    /\ lba' = IF ~ListGatherReturnsExceptions /\ \E i \in DOMAIN lba.results : lba.results[i].raised
              THEN [lba EXCEPT !.pc = "raised"]
              ELSE [CollectBuckets(profiles, lba.results) @@ lba EXCEPT !.pc = "returned"]
    /\ UNCHANGED <<profiles, listAllFrame>>

(***************************************************************************)
(* awss/app.py : refresh_buckets, as on_mount runs it at startup.          *)
(* One invocation, so its load token stays the latest.  The steps are the  *)
(* stretches between its awaits.                                           *)
(***************************************************************************)
\* what list_buckets_all hands to refresh_buckets
LiveListings ==
    {[buckets |-> bs, errors |-> es] :
        bs \in {<< >>, <<BucketInfo("bucket-a", "dev", BUCKET_ACCESS_UNKNOWN, FALSE)>>},
        es \in {<< >>} \cup {<<[profile |-> "dev", error |-> e]>> : e \in ListErrors}}

IdleRefresh ==
    [pc |-> "idle", cached |-> << >>, has_cached |-> FALSE, shown |-> << >>,
     placeholder |-> "", list_calls |-> 0, live |-> [buckets |-> << >>, errors |-> << >>],
     retry |-> << >>, saved |-> << >>]

RefreshIdle == refresh = IdleRefresh

\* refresh_buckets is not called: its variables hold nothing
RefreshUnused ==
    /\ refresh = << >>

\* sorted(buckets, key=lambda b: b.name.lower()): a stable sort by name
SortedByName(bs) ==
    LET order == SetToSeq({NameOrder(bs[i].name) * (Len(bs) + 1) + i : i \in DOMAIN bs})
    IN [k \in DOMAIN order |-> bs[order[k] % (Len(bs) + 1)]]

\* the profiles of the errors that are expired sessions, one per label
RECURSIVE RetryProfiles(_, _)
RetryProfiles(errors, seen) ==
    IF errors = << >> THEN << >>
    ELSE LET e == Head(errors)
         IN IF e.error \notin ExpiredErrors \/ _profile_label(e.profile) \in seen
            THEN RetryProfiles(Tail(errors), seen)
            ELSE <<e.profile>> \o RetryProfiles(Tail(errors), seen \cup {_profile_label(e.profile)})

\* lines 1703-1735: the view is emptied and load_bucket_cache is awaited
RefreshBuckets ==
    /\ refresh.pc = "idle"
    /\ refresh' = [IdleRefresh EXCEPT !.pc = "load", !.placeholder = "Loading buckets..."]
    /\ UNCHANGED refreshFrame

\* lines 1735-1747: the cache is back; when it holds buckets they are
\* rendered; then list_buckets_all is called and awaited
RefreshCacheLoaded ==
    /\ refresh.pc = "load"
    /\ \E cached \in RecordLists :
         refresh' = [refresh EXCEPT
                        !.pc = "list",
                        !.cached = cached,
                        !.has_cached = cached # << >>,
                        !.shown = IF cached # << >> THEN SortedByName(cached) ELSE @,
                        !.placeholder = IF cached # << >> THEN "Refreshing buckets..." ELSE @,
                        !.list_calls = @ + 1]
    /\ UNCHANGED refreshFrame

\* what follows a listing without profiles to retry: lines 1769-1776, up to
\* the await of select_best_bucket_profiles
RefreshResolve(r) == [r EXCEPT !.pc = "select"]

\* lines 1747-1764: the listing is back; expired sessions are
\* re-authenticated one by one, the other outcomes go on to the selection
RefreshListed ==
    /\ refresh.pc = "list"
    /\ \E live \in LiveListings :
         LET retry == RetryProfiles(live.errors, {})
             r == [refresh EXCEPT !.live = live, !.retry = retry]
         IN refresh' = IF retry # << >> THEN [r EXCEPT !.pc = "reauth"] ELSE RefreshResolve(r)
    /\ UNCHANGED refreshFrame

\* lines 1760-1768: one _reauth_sso_profile is back; after the last one
\* list_buckets_all is called again
RefreshReauthDone ==
    /\ refresh.pc = "reauth"
    /\ refresh' = IF Len(refresh.retry) > 1
                  THEN [refresh EXCEPT !.retry = Tail(@)]
                  ELSE [refresh EXCEPT !.retry = << >>, !.pc = "relist", !.list_calls = @ + 1]
    /\ UNCHANGED refreshFrame

\* line 1768: the second listing is back
RefreshRelisted ==
    /\ refresh.pc = "relist"
    /\ \E live \in LiveListings : refresh' = RefreshResolve([refresh EXCEPT !.live = live])
    /\ UNCHANGED refreshFrame

\* lines 1785-1816: the cached buckets stay when the refresh found nothing
\* and some profile failed; otherwise the resolved buckets are rendered
RefreshFinish(r) ==
    IF r.live.buckets = << >> /\ r.has_cached /\ r.live.errors # << >>
    THEN [r EXCEPT !.pc = "done", !.placeholder = "bucket/prefix/ (cached)"]
    ELSE [r EXCEPT !.pc = "done", !.placeholder = "bucket/prefix/",
                   !.shown = SortedByName(r.live.buckets)]

\* lines 1776-1783: select_best_bucket_profiles is back, with one record per
\* listed bucket; a non-empty result is saved first
RefreshSelected ==
    /\ refresh.pc = "select"
    /\ \E access \in {BUCKET_ACCESS_GOOD, BUCKET_ACCESS_NO_VIEW} :
         LET best == [k \in DOMAIN refresh.live.buckets |->
                             [refresh.live.buckets[k] EXCEPT !.access = access]]
             r == [refresh EXCEPT !.live.buckets = best]
         IN refresh' = IF best # << >> THEN [r EXCEPT !.pc = "save"] ELSE RefreshFinish(r)
    /\ UNCHANGED refreshFrame

\* line 1783 on: save_bucket_cache is back
RefreshSaved ==
    /\ refresh.pc = "save"
    /\ refresh' = RefreshFinish([refresh EXCEPT !.saved = refresh.live.buckets])
    /\ UNCHANGED refreshFrame

(***************************************************************************)
(* awss/app.py : the tree of buckets and prefixes, the speculative paths   *)
(* of navigate_to, and the history.  One bucket, listed at startup under   *)
(* the profile "prod"; the tree holds the root (node 0) and the nodes      *)
(* added since, numbered in the order of their creation.  A registry is a  *)
(* Python dict: a sequence of (key, node) entries in insertion order.  The *)
(* access level of the bucket is good throughout and bucket_access answers *)
(* good or no_view, so show_prefix does not ask for the access again after *)
(* the listing.                                                            *)
(***************************************************************************)
TreeProfiles == <<"dev", "prod">>
TreePrefixes == {"", "a/", "a/x/"}
Root == 0
NoNode == 0 - 1
TreeAccesses == {BUCKET_ACCESS_GOOD, BUCKET_ACCESS_NO_VIEW}

\* the values parent_prefix takes in the loop of ensure_tree_path
PathParts(prefix) ==
    IF prefix = "a/x/" THEN <<"a/", "a/x/">> ELSE IF prefix = "a/" THEN <<"a/">> ELSE << >>

TreeNode(kind, profile, prefix, parent) ==
    [kind |-> kind, data |-> NodeInfo(profile, prefix), parent |-> parent, attached |-> TRUE]

\* dict.get(key), dict.pop(key, None) and dict[key] = node
DictGet(dict, key) ==
    IF \E k \in DOMAIN dict : dict[k].key = key
    THEN dict[CHOOSE k \in DOMAIN dict : dict[k].key = key].node
    ELSE NoNode
DictPop(dict, key) == SelectSeq(dict, LAMBDA e : e.key # key)
DictSet(dict, key, node) ==
    IF \E k \in DOMAIN dict : dict[k].key = key
    THEN [k \in DOMAIN dict |-> IF dict[k].key = key THEN [key |-> key, node |-> node]
                                ELSE dict[k]]
    ELSE Append(dict, [key |-> key, node |-> node])

NoPending == [created |-> << >>, prev |-> NoNode, target |-> NoNode]

\* a NodeSelected message on its way to on_tree_node_selected; replay,
\* created and prev recall the navigation that posted it
Selected(node, replay, created, prev) ==
    [node |-> node, replay |-> replay, created |-> created, prev |-> prev]

\* the tree _render_bucket_nodes builds for the bucket listed under profile
RenderedTree(profile) ==
    [nodes |-> <<TreeNode("bucket", profile, "", Root)>>,
     bucket_nodes |-> <<[key |-> <<profile, "">>, node |-> 1]>>,
     prefix_nodes |-> << >>,
     cursor_node |-> Root,
     pending |-> NoPending,
     selected |-> << >>]
IdleTree == RenderedTree("prod")

\* the rows of the table
BucketRows(b) == [kind |-> "buckets", info |-> NodeInfo(b.profile, "")]
LoadingRows == [kind |-> "loading", info |-> NoContext]
ListingRows(info) == [kind |-> "listing", info |-> info]
ErrorRows(tried) == [kind |-> "error", info |-> NoContext, tried |-> tried]
NoRows == [kind |-> "none", info |-> NoContext]

\* the fields refresh_buckets leaves, for the bucket listed under profile
RefreshedBrowser(profile) ==
    [current_context |-> NoContext, path |-> "", table |-> NoRows, content_rows |-> NoRows,
     content_token |-> 0, history |-> << >>, history_index |-> 0 - 1,
     suppress_history_once |-> FALSE,
     bucket |-> [profile |-> profile, access |-> BUCKET_ACCESS_GOOD],
     saved |-> << >>, ops |-> 0]
IdleBrowser == RefreshedBrowser("prod")

TreeShows == 1..2

\* what the user sees beside the cursor: the context, the path bar, the
\* rows, the history and the tree
ViewOf(t, b) ==
    [current_context |-> b.current_context, path |-> b.path, table |-> b.table,
     content_rows |-> b.content_rows, history |-> b.history,
     history_index |-> b.history_index, nodes |-> t.nodes,
     bucket_nodes |-> t.bucket_nodes, prefix_nodes |-> t.prefix_nodes]
IdleTreeShow ==
    [pc |-> "idle", node |-> NoNode, info |-> NoContext, token |-> 0,
     suppress_history |-> FALSE, has_any |-> FALSE, attempted |-> << >>,
     selected |-> Selected(NoNode, FALSE, << >>, NoNode),
     before |-> ViewOf(IdleTree, IdleBrowser), outcome |-> ""]

\* there is no tree widget: its variables hold nothing
TreeUnused ==
    /\ s3_tree = << >>
    /\ browser = << >>
    /\ tree_shows = << >>

\* the node is in the tree: neither it nor a node above it was removed
RECURSIVE InTree(_, _)
InTree(t, n) ==
    \/ n = Root
    \/ /\ n \in DOMAIN t.nodes
       /\ t.nodes[n].attached
       /\ InTree(t, t.nodes[n].parent)

\* lines 2453-2465 of ensure_tree_path: the bucket node is found or added
EnsureBucket(t, profile) ==
    LET found == DictGet(t.bucket_nodes, <<profile, "">>)
        id == Len(t.nodes) + 1
    IN IF found # NoNode
       THEN [tree |-> t, node |-> found, created |-> << >>]
       ELSE [tree |-> [t EXCEPT
                         !.nodes = Append(@, TreeNode("bucket", profile, "", Root)),
                         !.bucket_nodes = DictSet(@, <<profile, "">>, id)],
             node |-> id,
             created |-> <<[node |-> id, kind |-> "bucket", key |-> <<profile, "">>]>>]

\* lines 2469-2486 of ensure_tree_path: one node per part of the prefix
RECURSIVE EnsureParts(_, _, _)
EnsureParts(r, profile, parts) ==
    IF parts = << >> THEN r
    ELSE LET key == <<profile, Head(parts)>>
             child == DictGet(r.tree.prefix_nodes, key)
             id == Len(r.tree.nodes) + 1
         IN IF child # NoNode
            THEN EnsureParts([r EXCEPT !.node = child], profile, Tail(parts))
            ELSE EnsureParts(
                   [tree |-> [r.tree EXCEPT
                                !.nodes = Append(@, TreeNode("prefix", profile, Head(parts),
                                                             r.node)),
                                !.prefix_nodes = DictSet(@, key, id)],
                    node |-> id,
                    created |-> Append(r.created,
                                       [node |-> id, kind |-> "prefix", key |-> key])],
                   profile, Tail(parts))

ensure_tree_path(t, profile, prefix) ==
    EnsureParts(EnsureBucket(t, profile), profile, PathParts(prefix))

\* Tree.select_node: the cursor moves and NodeSelected is posted
select_node(t, node, replay, created, prev) ==
    [t EXCEPT !.cursor_node = node,
              !.selected = Append(@, Selected(node, replay, created, prev))]

navigate_to(t, profile, prefix, replay) ==
    LET prev_node == t.cursor_node
        r == ensure_tree_path(t, profile, prefix)
    IN select_node([r.tree EXCEPT !.pending = [created |-> r.created, prev |-> prev_node,
                                               target |-> r.node]],
                   r.node, replay,
                   [k \in DOMAIN r.created |-> r.created[k].node], prev_node)

\* the registry entry of a created node is popped (lines 3176-3179)
PopPending(t, entry) ==
    IF entry.kind = "prefix"
    THEN [t EXCEPT !.prefix_nodes = DictPop(@, entry.key)]
    ELSE [t EXCEPT !.bucket_nodes = DictPop(@, entry.key)]

\* _remove_pending_nodes: from the last created node to the first
RECURSIVE RemoveNodes(_, _)
RemoveNodes(t, created) ==
    IF created = << >> THEN t
    ELSE LET entry == created[Len(created)]
             popped == PopPending(t, entry)
         IN RemoveNodes([popped EXCEPT !.nodes[entry.node].attached = FALSE],
                        SubSeq(created, 1, Len(created) - 1))
_remove_pending_nodes(t) == RemoveNodes(t, t.pending.created)

_clear_pending(t) == [t EXCEPT !.pending = NoPending]

\* "if self._pending_target_node is node and self._pending_created"
IsPendingTarget(t, node) == t.pending.target = node /\ t.pending.created # << >>

\* lines 2093-2099 and 2150-2156: the batch is undone and the node selected
\* before the navigation is selected again
RollBack(t) ==
    LET prev_node == t.pending.prev
    IN select_node(_clear_pending(_remove_pending_nodes(t)),
                   IF prev_node # NoNode THEN prev_node ELSE Root,
                   FALSE, << >>, t.cursor_node)

\* "if self._pending_target_node is node: self._clear_pending()"
ClearIfTarget(t, node) == IF t.pending.target = node THEN _clear_pending(t) ELSE t

\* _history_key: None for the bucket list, else (profile, bucket, prefix)
_history_key(context) ==
    IF context = NoContext THEN << >>
    ELSE <<context.profile, context.bucket, context.prefix>>

\* mutant: every context is appended
_record_history_always(b, context) ==
    [b EXCEPT !.history = Append(SubSeq(b.history, 1, b.history_index + 1), context),
              !.history_index = b.history_index + 1]

\* _record_history, on the fields of the browser
_record_history_at(b, context) ==
    IF /\ b.history # << >>
       /\ b.history_index >= 0
       /\ _history_key(b.history[b.history_index + 1]) = _history_key(context)
    THEN b
    ELSE LET kept == IF b.history_index < Len(b.history) - 1
                     THEN SubSeq(b.history, 1, b.history_index + 1)
                     ELSE b.history
         IN [b EXCEPT !.history = Append(kept, context), !.history_index = Len(kept)]

\* _consume_history_suppression, then the rest of the caller
_consume_history_suppression(b) == [b EXCEPT !.suppress_history_once = FALSE]

\* show_bucket_list
show_bucket_list(b) ==
    LET suppress_history == b.suppress_history_once
        shown == [_consume_history_suppression(b) EXCEPT
                     !.table = BucketRows(b.bucket), !.content_rows = BucketRows(b.bucket)]
    IN IF suppress_history THEN shown ELSE _record_history_at(shown, NoContext)

\* the path bar: "s3://", or the bucket and the prefix
PathOf(info) == IF info = NoContext THEN << >> ELSE <<info.bucket, info.prefix>>

\* _profile_candidates_for_bucket: the profiles of the service, the named
\* ones first
TreeCandidates ==
    SelectSeq(profiles, LAMBDA p : p # None) \o SelectSeq(profiles, LAMBDA p : p = None)

\* the key by which _resolve_profile_for_bucket_access ranks a profile
ProfileOrder(profile) == (CHOOSE k \in DOMAIN profiles : profiles[k] = profile) - 1
AccessKey(profile, access) ==
    <<_bucket_access_level(access), IF profile # None THEN 1 ELSE 0, 0 - ProfileOrder(profile)>>

\* lines 1284-1302: the best of the candidates, the remembered profile first
RECURSIVE BestProfile(_, _, _)
BestProfile(best, candidates, results) ==
    IF candidates = << >> THEN best
    ELSE LET profile == Head(candidates)
             access == results[profile]
         IN BestProfile(IF TupleLess(AccessKey(best.profile, best.access),
                                     AccessKey(profile, access))
                        THEN [profile |-> profile, access |-> access]
                        ELSE best,
                        Tail(candidates), results)

\* lines 1945-1971: the prefix nodes of the bucket move to the new profile
RECURSIVE RekeyPrefixes(_, _, _)
RekeyPrefixes(t, updates, new_profile) ==
    IF updates = << >> THEN t
    ELSE LET old == Head(updates)
         IN RekeyPrefixes(
              [t EXCEPT !.prefix_nodes = DictSet(DictPop(@, old.key),
                                                 <<new_profile, old.key[2]>>, old.node),
                        !.nodes[old.node].data.profile = new_profile],
              Tail(updates), new_profile)

\* _switch_bucket_profile with the tree: the bucket node and the prefix nodes
\* are registered under the new profile
SwitchBucketProfile(t, b, old_profile, new_profile, current_node, new_access) ==
    IF old_profile = new_profile
    THEN LET bucket_node == DictGet(t.bucket_nodes, <<new_profile, "">>)
         IN [tree |-> IF bucket_node # NoNode
                      THEN [t EXCEPT !.nodes[bucket_node].data = NodeInfo(new_profile, "")]
                      ELSE t,
             bucket |-> [b EXCEPT !.access = new_access]]
    ELSE LET old_bucket_key == <<old_profile, "">>
             direct == DictGet(t.bucket_nodes, old_bucket_key)
             other == direct = NoNode /\ t.bucket_nodes # << >>
             source_profile == IF other THEN t.bucket_nodes[1].key[1] ELSE old_profile
             bucket_node == IF other THEN t.bucket_nodes[1].node ELSE direct
             t1 == IF bucket_node = NoNode THEN t
                   ELSE [t EXCEPT
                           !.bucket_nodes =
                               DictSet(DictPop(IF source_profile # None \/ direct # NoNode
                                               THEN DictPop(@, <<source_profile, "">>)
                                               ELSE @,
                                               old_bucket_key),
                                       <<new_profile, "">>, bucket_node),
                           !.nodes[bucket_node].data = NodeInfo(new_profile, "")]
             t2 == IF t1.nodes[current_node].data.profile = old_profile
                   THEN [t1 EXCEPT !.nodes[current_node].data.profile = new_profile]
                   ELSE t1
             profile_to_replace == IF bucket_node # NoNode THEN source_profile
                                   ELSE old_profile
         IN [tree |-> RekeyPrefixes(t2, SelectSeq(t2.prefix_nodes,
                                                  LAMBDA e : e.key[1] = profile_to_replace),
                                    new_profile),
             bucket |-> [profile |-> new_profile, access |-> new_access]]

\* the nodes the user can select in the tree widget
Selectable(t) == {Root} \cup {n \in DOMAIN t.nodes : InTree(t, n)}

\* the user selects a node of the tree: NodeSelected is posted
TreeNodeClicked(n) ==
    /\ browser.ops < MaxOps
    /\ n \in Selectable(s3_tree)
    /\ s3_tree' = select_node(s3_tree, n, FALSE, << >>, s3_tree.cursor_node)
    /\ browser' = [browser EXCEPT !.ops = @ + 1]
    /\ UNCHANGED <<tree_shows, treeFrame>>

\* on_input_submitted with a path of the bucket
on_input_submitted(prefix) ==
    /\ browser.ops < MaxOps
    /\ LET t == navigate_to(s3_tree, browser.bucket.profile, prefix, FALSE)
       IN /\ Len(t.nodes) <= MaxNodes
          /\ s3_tree' = t
    /\ browser' = [browser EXCEPT !.ops = @ + 1]
    /\ UNCHANGED <<tree_shows, treeFrame>>

\* _navigate_history
_navigate_history(t, context) ==
    IF context = NoContext THEN select_node(t, Root, TRUE, << >>, t.cursor_node)
    ELSE navigate_to(t, context.profile, context.prefix, TRUE)

\* action_back and action_forward once the index has moved
ReplayHistory(index) ==
    /\ browser.ops < MaxOps
    /\ LET t == _navigate_history(s3_tree, browser.history[index + 1])
       IN /\ Len(t.nodes) <= MaxNodes
          /\ s3_tree' = t
    /\ browser' = [browser EXCEPT !.history_index = index, !.suppress_history_once = TRUE,
                                  !.ops = @ + 1]
    /\ UNCHANGED <<tree_shows, treeFrame>>

action_back ==
    /\ ~(browser.history_index <= 0)
    /\ ReplayHistory(browser.history_index - 1)

action_forward ==
    /\ ~(browser.history_index >= Len(browser.history) - 1)
    /\ ReplayHistory(browser.history_index + 1)

\* on_tree_node_selected for the root: the bucket list is shown
SelectedRoot ==
    /\ s3_tree.selected # << >>
    /\ Head(s3_tree.selected).node = Root
    /\ s3_tree' = [s3_tree EXCEPT !.selected = Tail(@)]
    /\ browser' = show_bucket_list([browser EXCEPT !.current_context = NoContext,
                                                   !.path = PathOf(NoContext)])
    /\ UNCHANGED <<tree_shows, treeFrame>>

\* on_tree_node_selected for a node, and lines 2029-2040 of show_prefix: the
\* node takes the profile of the bucket, then the await of
\* _resolve_profile_for_bucket_access
SelectedNode(i) ==
    /\ s3_tree.selected # << >>
    /\ Head(s3_tree.selected).node # Root
    /\ tree_shows[i].pc = "idle"
    /\ \A j \in TreeShows : j < i => tree_shows[j].pc # "idle"
    /\ browser.content_token + Cardinality({j \in TreeShows : tree_shows[j].pc = "resolve"})
          < MaxVisits
    /\ LET event == Head(s3_tree.selected)
           info == [s3_tree.nodes[event.node].data EXCEPT !.profile = browser.bucket.profile]
       IN /\ s3_tree' = [s3_tree EXCEPT !.selected = Tail(@), !.nodes[event.node].data = info]
          /\ tree_shows' = [tree_shows EXCEPT ![i] =
                               [IdleTreeShow EXCEPT !.pc = "resolve", !.node = event.node,
                                                    !.info = info, !.selected = event,
                                                    !.before = ViewOf(s3_tree, browser)]]
    /\ UNCHANGED <<browser, treeFrame>>

\* lines 2041-2080: the best profile is adopted, the context, the path bar
\* and the token move on, the suppression is consumed, the table shows
\* "Loading...", then the await of the list
TreeResolved(i) ==
    /\ tree_shows[i].pc = "resolve"
    /\ \E results \in [Range(profiles) -> TreeAccesses] :
         LET v == tree_shows[i]
             best == BestProfile([profile |-> v.info.profile,
                                  access |-> browser.bucket.access],
                                 TreeCandidates, results)
             changed == best.profile # v.info.profile \/ browser.bucket.access # best.access
             switched == IF changed
                         THEN SwitchBucketProfile(s3_tree, browser.bucket, v.info.profile,
                                                  best.profile, v.node, best.access)
                         ELSE [tree |-> s3_tree, bucket |-> browser.bucket]
             info == IF changed THEN NodeInfo(best.profile, v.info.prefix) ELSE v.info
         IN /\ s3_tree' = [switched.tree EXCEPT !.nodes[v.node].data = info]
            /\ browser' = [_consume_history_suppression(browser) EXCEPT
                              !.bucket = switched.bucket,
                              !.current_context = info,
                              !.content_token = @ + 1,
                              !.path = PathOf(info),
                              !.table = LoadingRows]
            /\ tree_shows' = [tree_shows EXCEPT
                                 ![i].pc = "list", ![i].info = info,
                                 ![i].token = browser.content_token + 1,
                                 ![i].suppress_history = browser.suppress_history_once]
    /\ UNCHANGED treeFrame

\* lines 2148-2219: the end of show_prefix once the listing is known
TreeShowTail(t, b, v, info, has_any) ==
    IF ~has_any /\ info.prefix # ""
    THEN IF IsPendingTarget(t, v.node)
         THEN [tree |-> RollBack(t), browser |-> b,
               outcome |-> "not_found_rolled_back"]
         ELSE [tree |-> t, browser |-> b,
               outcome |-> "not_found"]
    ELSE IF v.token # b.content_token
    THEN [tree |-> ClearIfTarget(t, v.node), browser |-> b, outcome |-> "superseded"]
    ELSE LET shown == [b EXCEPT !.table = ListingRows(info),
                                !.content_rows = ListingRows(info)]
         IN [tree |-> ClearIfTarget(t, v.node),
             browser |-> IF v.suppress_history THEN shown ELSE _record_history_at(shown, info),
             outcome |-> "shown"]

\* show_prefix returns; outcome recalls how: with the rows ("shown"), with
\* the warning "Path not found", with the error, or superseded
TreeShowEnds(i, result) ==
    /\ s3_tree' = result.tree
    /\ browser' = result.browser
    /\ tree_shows' = [tree_shows EXCEPT ![i] = [IdleTreeShow EXCEPT !.outcome = result.outcome]]

\* lines 2080-2086 and 2148-2219: the list returns
TreeListed(i) ==
    /\ tree_shows[i].pc = "list"
    /\ \E has_any \in BOOLEAN :
         TreeShowEnds(i, TreeShowTail(s3_tree, browser, tree_shows[i], tree_shows[i].info,
                                      has_any))
    /\ UNCHANGED treeFrame

\* lines 2087-2088: the list raises; _try_bucket_profile_fallback starts
TreeListRaised(i) ==
    /\ tree_shows[i].pc = "list"
    /\ tree_shows' = [tree_shows EXCEPT ![i].pc = "fallback"]
    /\ UNCHANGED <<s3_tree, browser, treeFrame>>

\* mutant: the candidates in the order of the configuration
TreeFallbackUnsorted(info) == SelectSeq(profiles, LAMBDA p : p # info.profile)

\* the candidates of _try_bucket_profile_fallback, in the order it tries them
TreeFallbackCandidates(info) == SelectSeq(TreeCandidates, LAMBDA p : p # info.profile)

\* lines 2091-2123: no profile could list
TreeShowFails(t, b, v, attempted) ==
    IF IsPendingTarget(t, v.node)
    THEN [tree |-> RollBack(t), browser |-> b,
          outcome |-> "failed_rolled_back"]
    ELSE LET tried == <<v.info.profile>> \o attempted
         IN [tree |-> t,
             browser |-> [b EXCEPT !.table = ErrorRows(tried),
                                   !.content_rows = ErrorRows(tried)],
             outcome |-> "failed"]

\* lines 1982-1995: the list under the next candidate raises; after the last
\* candidate the fallback returns None
TreeFallbackRaised(i) ==
    /\ tree_shows[i].pc = "fallback"
    /\ LET v == tree_shows[i]
           candidates == TreeFallbackCandidates(v.info)
           attempted == Append(v.attempted, candidates[Len(v.attempted) + 1])
       IN IF Len(attempted) < Len(candidates)
          THEN /\ tree_shows' = [tree_shows EXCEPT ![i].attempted = attempted]
               /\ UNCHANGED <<s3_tree, browser>>
          ELSE TreeShowEnds(i, TreeShowFails(s3_tree, browser, v, attempted))
    /\ UNCHANGED treeFrame

\* lines 1982-2008: the next candidate lists the prefix; its access is awaited
TreeFallbackListed(i) ==
    /\ tree_shows[i].pc = "fallback"
    /\ \E has_any \in BOOLEAN :
         LET v == tree_shows[i]
         IN tree_shows' = [tree_shows EXCEPT
                              ![i].pc = "fallback_access", ![i].has_any = has_any,
                              ![i].attempted =
                                  Append(v.attempted,
                                         TreeFallbackCandidates(v.info)[Len(v.attempted) + 1])]
    /\ UNCHANGED <<s3_tree, browser, treeFrame>>

\* the candidate has just listed the prefix, so its probe does not answer
\* no_view
FallbackAccesses == TreeAccesses \ {BUCKET_ACCESS_NO_VIEW}

\* lines 1996-2023: the access of the candidate is back; the bucket moves to
\* the candidate, which becomes the context; save_bucket_cache is called
\* with the records and awaited
TreeFallbackSwitched(i) ==
    /\ tree_shows[i].pc = "fallback_access"
    /\ \E access \in FallbackAccesses :
         LET v == tree_shows[i]
             profile == v.attempted[Len(v.attempted)]
             new_info == NodeInfo(profile, v.info.prefix)
             switched == SwitchBucketProfile(s3_tree, browser.bucket, v.info.profile,
                                             profile, v.node, access)
         IN /\ s3_tree' = switched.tree
            /\ browser' = [browser EXCEPT !.bucket = switched.bucket,
                                          !.current_context = new_info,
                                          !.saved = <<switched.bucket>>]
            /\ tree_shows' = [tree_shows EXCEPT ![i].pc = "fallback_save",
                                                ![i].info = new_info]
    /\ UNCHANGED treeFrame

\* lines 2025, 2089-2090 and 2148-2219: save_bucket_cache is done and the
\* fallback returns its listing
TreeFallbackReturned(i) ==
    /\ tree_shows[i].pc = "fallback_save"
    /\ TreeShowEnds(i, TreeShowTail(s3_tree, [browser EXCEPT !.saved = << >>],
                                    tree_shows[i], tree_shows[i].info,
                                    tree_shows[i].has_any))
    /\ UNCHANGED treeFrame

(***************************************************************************)
(* awss/app.py : on_tree_node_expanded and _sync_prefix_children, for one  *)
(* prefix node of the tree.  `expansion` holds the node's children in the  *)
(* order the tree keeps them, whether node.id is in loaded_nodes, the      *)
(* node's allow_expand, and the handlers of NodeExpanded that are waiting  *)
(* for list_prefixes.  list_calls and syncs count the listing calls the    *)
(* expand handler has issued and the runs of _sync_prefix_children.        *)
(***************************************************************************)
MaxExpands == 3

\* the handlers of Tree.NodeExpanded that can be in flight for the node
Expanders == 1..2

\* the prefixes one level under the node, in key order
ChildPrefixes == <<"a/x/", "a/y/">>

\* what a delimiter listing of the node can return: any of the prefixes,
\* each once, in key order
PrefixLists ==
    {SelectSeq(ChildPrefixes, LAMBDA p : p \in S) :
        S \in SUBSET {ChildPrefixes[k] : k \in DOMAIN ChildPrefixes}}

\* lines 902 and 1683-1701: a node of a freshly rendered tree
IdleExpansion ==
    [children |-> << >>, loaded |-> FALSE, allow_expand |-> TRUE,
     handlers |-> [h \in Expanders |-> "idle"],
     events |-> 0, list_calls |-> 0, syncs |-> 0]

\* lines 2496-2500: the prefixes of the children the node has
ChildPrefixSet(kids) == {kids[k].prefix : k \in DOMAIN kids}

RECURSIVE AddMissingChildren(_, _, _)
\* lines 2501-2508: one child is added for each listed prefix that was not
\* among the children when the loop began
AddMissingChildren(kids, existing, prefixes) ==
    IF prefixes = << >> THEN kids
    ELSE AddMissingChildren(
             IF Head(prefixes) \in existing THEN kids
             ELSE Append(kids, [prefix |-> Head(prefixes), pending |-> FALSE]),
             existing, SubSeq(prefixes, 2, Len(prefixes)))

\* a sync that shows the listing instead of merging it
SyncReplacesChildren(e, prefixes) ==
    IF prefixes = << >> THEN [e EXCEPT !.allow_expand = FALSE, !.syncs = @ + 1]
    ELSE [e EXCEPT !.allow_expand = TRUE, !.syncs = @ + 1,
                   !.children = AddMissingChildren(<< >>, {}, prefixes)]

\* lines 2489-2508: _sync_prefix_children(node, info, prefixes)
SyncPrefixChildren(e, prefixes) ==
    IF prefixes = << >> THEN [e EXCEPT !.allow_expand = FALSE, !.syncs = @ + 1]
    ELSE [e EXCEPT !.allow_expand = TRUE, !.syncs = @ + 1,
                   !.children = AddMissingChildren(e.children,
                                                   ChildPrefixSet(e.children),
                                                   prefixes)]

\* lines 1651-1661: NodeExpanded is handled; a node in loaded_nodes returns,
\* any other node calls list_prefixes
NodeExpanded(h) ==
    /\ expansion.handlers[h] = "idle"
    /\ expansion.events < MaxExpands
    /\ expansion' =
         IF expansion.loaded
         THEN [expansion EXCEPT !.events = @ + 1]
         ELSE [expansion EXCEPT !.events = @ + 1, !.list_calls = @ + 1,
                                !.handlers[h] = "list"]
    /\ UNCHANGED expansionFrame

\* lines 1662-1666: list_prefixes raised
ExpandRaised(h) ==
    /\ expansion.handlers[h] = "list"
    /\ expansion' = [expansion EXCEPT !.allow_expand = FALSE,
                                      !.handlers[h] = "idle"]
    /\ UNCHANGED expansionFrame

\* lines 1668-1671: list_prefixes returned; the node is marked loaded and its
\* children are synced
ExpandListed(h, prefixes) ==
    /\ expansion.handlers[h] = "list"
    /\ expansion' = SyncPrefixChildren(
                        [expansion EXCEPT !.loaded = TRUE,
                                          !.handlers[h] = "idle"], prefixes)
    /\ UNCHANGED expansionFrame

\* line 2166: show_prefix syncs the node with the listing it shows
ShowSynced(prefixes) ==
    /\ expansion.syncs < MaxExpands
    /\ expansion' = SyncPrefixChildren(expansion, prefixes)
    /\ UNCHANGED expansionFrame

\* lines 2473-2485: ensure_tree_path adds the child a navigation needs when
\* prefix_nodes has none for the prefix
ChildEnsured(prefix) ==
    /\ prefix \notin ChildPrefixSet(expansion.children)
    /\ expansion' = [expansion EXCEPT
                       !.children = Append(@, [prefix |-> prefix,
                                               pending |-> TRUE])]
    /\ UNCHANGED expansionFrame

\* lines 3175-3186: the navigation found nothing; the nodes it created are
\* removed again
PendingRolledBack ==
    /\ \E k \in DOMAIN expansion.children : expansion.children[k].pending
    /\ expansion' = [expansion EXCEPT
                       !.children = SelectSeq(@, LAMBDA c : ~c.pending)]
    /\ UNCHANGED expansionFrame

\* lines 2208-2209 and 3185-3186: the navigation showed its target; the
\* created nodes stay
PendingCleared ==
    /\ \E k \in DOMAIN expansion.children : expansion.children[k].pending
    /\ expansion' = [expansion EXCEPT
                       !.children = [k \in DOMAIN @ |->
                                        [@[k] EXCEPT !.pending = FALSE]]]
    /\ UNCHANGED expansionFrame

(***************************************************************************)
(* awss/app.py : the incremental preview of an object and the selection    *)
(* summary; awss/s3.py : _get_object_head.  An object is the sequence of   *)
(* its bytes: "a" is an ASCII byte, "L" and "T" are the lead and the trail *)
(* byte of a two-byte character.  A byte read from the service is named by *)
(* its object and offset; a character of the preview text names the bytes  *)
(* it was decoded from.  `pane` holds the preview token, the preview state *)
(* (None is NoKey for the key and NoTotal for the total), the number of    *)
(* selected objects, whether the summary of a selection is shown, and the  *)
(* loads that wait for the service.  A load notes whether the preview     *)
(* state was reset, by something that is no preview request, since the     *)
(* load asked the service.                                                 *)
(***************************************************************************)
MaxPreviews == 3

\* self._preview_bytes, in bytes of the model
PreviewBytes == 2

NoKey == "none"
PaneObjects ==
    [k1 |-> <<"a", "L", "T", "a", "a">>, k2 |-> <<"a", "a", "a">>]
PaneKeys == {"k1", "k2"}
PaneLoads == 1..2

ByteAt(key, offset) == [key |-> key, at |-> offset, byte |-> PaneObjects[key][offset + 1]]

\* lines 723-757: _get_object_head(profile, bucket, key, max_bytes, start):
\* the bytes start..start + max_bytes - 1 that the object has, its size from
\* ContentRange, and whether bytes remain
_get_object_head(key, max_bytes, start) ==
    LET size == Len(PaneObjects[key])
        end == IF start + max_bytes - 1 < size - 1 THEN start + max_bytes - 1 ELSE size - 1
        data == [k \in 1..(end - start + 1) |-> ByteAt(key, start + k - 1)]
    IN [data |-> data, total |-> size, truncated |-> start + Len(data) < size]

RECURSIVE DecodeReplace(_)
\* data.decode("utf-8", errors="replace"): a lead byte without its trail
\* byte, and a trail byte without its lead byte, become a replacement
\* character
DecodeReplace(data) ==
    IF data = << >> THEN << >>
    ELSE IF data[1].byte = "a"
    THEN <<[text |-> "a", of |-> <<data[1]>>]>> \o DecodeReplace(SubSeq(data, 2, Len(data)))
    ELSE IF data[1].byte = "L" /\ Len(data) >= 2 /\ data[2].byte = "T"
    THEN <<[text |-> "2-byte", of |-> <<data[1], data[2]>>]>>
             \o DecodeReplace(SubSeq(data, 3, Len(data)))
    ELSE <<[text |-> "U+FFFD", of |-> <<data[1]>>]>>
             \o DecodeReplace(SubSeq(data, 2, Len(data)))

IdlePaneLoad == [pc |-> "idle", kind |-> "none", token |-> 0, key |-> NoKey, start |-> 0,
                 outlived_reset |-> FALSE]

\* lines 914-932: the pane after construction
IdlePane ==
    [token |-> 0, key |-> NoKey, content |-> << >>, next_start |-> 0, total |-> NoTotal,
     truncated |-> FALSE, text |-> "", selected |-> 0, summary |-> FALSE,
     loads |-> [i \in PaneLoads |-> IdlePaneLoad]]

\* lines 2577-2586, 2736-2745 and 2749-2758: the preview state is emptied
PaneReset(p, text) ==
    [p EXCEPT !.key = NoKey, !.content = << >>, !.next_start = 0, !.total = NoTotal,
              !.truncated = FALSE, !.text = text,
              !.loads = [i \in PaneLoads |->
                            IF p.loads[i].pc = "await"
                            THEN [p.loads[i] EXCEPT !.outlived_reset = TRUE]
                            ELSE p.loads[i]]]

\* lines 2731-2759: _update_selection_summary
_update_selection_summary(p) ==
    IF p.selected >= 2 THEN [PaneReset(p, "files selected") EXCEPT !.summary = TRUE]
    ELSE IF p.summary THEN [PaneReset(p, "") EXCEPT !.summary = FALSE]
    ELSE p

\* lines 2573-2587: _clear_selection
_clear_selection(p) ==
    IF p.summary THEN [PaneReset(p, "") EXCEPT !.selected = 0, !.summary = FALSE]
    ELSE [p EXCEPT !.selected = 0]

\* lines 2761-2803: handle_table_selection_click on the row of an object: a
\* plain click selects the row alone, a click with ctrl toggles it
ObjectRowClicked(count) ==
    /\ count \in {1, pane.selected + 1, pane.selected - 1}
    /\ count \in 0..2
    /\ pane' = _update_selection_summary([pane EXCEPT !.selected = count])
    /\ UNCHANGED paneFrame

\* lines 2770-2774 and 2821-2829: a plain click on a row that is no object,
\* or typing in the path bar
SelectionCleared ==
    /\ pane' = _clear_selection(pane)
    /\ UNCHANGED paneFrame

\* a load-more that asks for the object from its first byte again
MoreStartsOver(p) == 0

\* line 2413: start=self._preview_next_start
MoreStart(p) == p.next_start

\* lines 2272-2289 and 2369-2384: preview_selected_row with fewer than two
\* objects selected calls _load_preview, which runs up to its await
PaneLoadPreview(i, key) ==
    /\ pane.loads[i].pc = "idle"
    /\ pane.token < MaxPreviews
    /\ pane.selected < 2
    /\ pane' = [pane EXCEPT
                  !.token = @ + 1, !.text = "Loading preview...",
                  !.loads[i] = [pc |-> "await", kind |-> "preview", token |-> pane.token + 1,
                                key |-> key, start |-> 0, outlived_reset |-> FALSE]]
    /\ UNCHANGED paneFrame

\* lines 2385-2398: _load_preview from the answer of get_object_head
PaneHeadAnswered(i, raised) ==
    /\ pane.loads[i].pc = "await"
    /\ pane.loads[i].kind = "preview"
    /\ LET load == pane.loads[i]
           r == _get_object_head(load.key, PreviewBytes, load.start)
           p == [pane EXCEPT !.loads[i] = IdlePaneLoad]
       IN pane' = IF load.token # pane.token THEN p
                  ELSE IF raised THEN [p EXCEPT !.text = "Error"]
                  ELSE [p EXCEPT !.key = load.key, !.content = DecodeReplace(r.data),
                                 !.next_start = Len(r.data), !.total = r.total,
                                 !.truncated = r.truncated, !.text = "content"]
    /\ UNCHANGED paneFrame

\* lines 1475-1477 and 2400-2415: action_preview_more on a truncated preview
\* calls _load_more_preview, which runs up to its await
PaneLoadMore(i) ==
    /\ pane.loads[i].pc = "idle"
    /\ pane.token < MaxPreviews
    /\ pane.key # NoKey
    /\ pane.truncated
    /\ pane' = [pane EXCEPT
                  !.token = @ + 1,
                  !.loads[i] = [pc |-> "await", kind |-> "more", token |-> pane.token + 1,
                                key |-> pane.key, start |-> MoreStart(pane),
                                outlived_reset |-> FALSE]]
    /\ UNCHANGED paneFrame

\* lines 2416-2429 and 3121-3123: _load_more_preview from the answer of
\* get_object_range; _render_preview shows nothing without a key
PaneRangeAnswered(i, raised) ==
    /\ pane.loads[i].pc = "await"
    /\ pane.loads[i].kind = "more"
    /\ LET load == pane.loads[i]
           r == _get_object_head(load.key, PreviewBytes, load.start)
           p == [pane EXCEPT !.loads[i] = IdlePaneLoad]
       IN pane' = IF load.token # pane.token THEN p
                  ELSE IF raised THEN [p EXCEPT !.text = "Error"]
                  ELSE [p EXCEPT !.content = @ \o DecodeReplace(r.data),
                                 !.next_start = @ + Len(r.data), !.total = r.total,
                                 !.truncated = r.truncated,
                                 !.text = IF p.key = NoKey THEN @ ELSE "content"]
    /\ UNCHANGED paneFrame

\* lines 2221-2243: show_bucket_list takes a token and resets the preview
PaneBucketListShown ==
    /\ pane.token < MaxPreviews
    /\ pane' = [_clear_selection(pane) EXCEPT
                  !.token = @ + 1, !.key = NoKey, !.content = << >>, !.next_start = 0,
                  !.total = NoTotal, !.truncated = FALSE, !.text = ""]
    /\ UNCHANGED paneFrame

(***************************************************************************)
(* awss/s3.py : _client, called from the worker threads that               *)
(* asyncio.to_thread starts.  A client object is named by the order of its *)
(* construction for its profile (0 is no client).  A thread runs the       *)
(* lookup, the construction of the session and the client, and the store   *)
(* into self._clients as separate steps, since nothing in _client holds a  *)
(* lock.                                                                   *)
(***************************************************************************)
MaxClientCalls == 3

ClientThreads == 1..2
ClientProfiles == {"dev", "prod"}
NoClient == 0

IdleClientThread == [pc |-> "idle", profile |-> "", client |-> NoClient]

\* line 54: self._clients = {}
IdleClients ==
    [cache |-> [profile \in ClientProfiles |-> NoClient],
     constructed |-> [profile \in ClientProfiles |-> 0],
     returned |-> [profile \in ClientProfiles |-> {}],
     calls |-> 0,
     threads |-> [t \in ClientThreads |-> IdleClientThread]]

\* lines 143-145: key in self._clients, self._clients[key]
Lookup(c, profile) == c.cache[profile]

\* lines 142-145: _client(profile) looks the profile up and returns the
\* client it finds
ClientLookedUp(t, profile) ==
    /\ clients.threads[t].pc = "idle"
    /\ clients.calls < MaxClientCalls
    /\ clients' =
         IF Lookup(clients, profile) # NoClient
         THEN [clients EXCEPT
                 !.calls = @ + 1,
                 !.returned[profile] = @ \cup {Lookup(clients, profile)}]
         ELSE [clients EXCEPT
                 !.calls = @ + 1,
                 !.threads[t] = [pc |-> "construct", profile |-> profile,
                                 client |-> NoClient]]
    /\ UNCHANGED clientsFrame

\* lines 146-153: the session and its client are constructed
ClientConstructed(t) ==
    /\ clients.threads[t].pc = "construct"
    /\ LET profile == clients.threads[t].profile
       IN clients' = [clients EXCEPT
                        !.constructed[profile] = @ + 1,
                        !.threads[t].pc = "store",
                        !.threads[t].client = clients.constructed[profile] + 1]
    /\ UNCHANGED clientsFrame

\* lines 154-155: the client is stored and returned
ClientStored(t) ==
    /\ clients.threads[t].pc = "store"
    /\ LET profile == clients.threads[t].profile
           client == clients.threads[t].client
       IN clients' = [clients EXCEPT
                        !.cache[profile] = client,
                        !.returned[profile] = @ \cup {client},
                        !.threads[t] = IdleClientThread]
    /\ UNCHANGED clientsFrame

(***************************************************************************)
(* awss/s3.py : the pagination loop that _list_prefixes,                   *)
(* _list_prefixes_and_objects, _scan_prefix_recursive and                  *)
(* _list_objects_recursive share.  The backend holds a finite chain of     *)
(* pages; page k is handed out for the continuation token k - 1, and for   *)
(* a request without a token when k = 1.  A page reports IsTruncated and   *)
(* may supply NextContinuationToken; NoToken is the absent token (None),   *)
(* which `if continuation:` takes for false.                               *)
(***************************************************************************)
MaxChain == 3
MaxListCalls == 4

NoToken == 0
PagedOps == {"_list_prefixes", "_list_prefixes_and_objects", "_scan_prefix_recursive",
             "_list_objects_recursive"}

\* the pages a backend can hold: every page but the last is truncated, and a
\* truncated page names the next page or supplies no token
PageChains ==
    UNION {{chain \in [1..n -> [IsTruncated : BOOLEAN,
                                NextContinuationToken : 0..MaxChain]] :
               \A k \in 1..n :
                  /\ k < n => chain[k].IsTruncated
                  /\ chain[k].NextContinuationToken \in
                        (IF chain[k].IsTruncated /\ k < n THEN {k, NoToken} ELSE {NoToken})}
           : n \in 1..MaxChain}

IdlePager == [pc |-> "idle", op |-> "none", continuation |-> NoToken, requests |-> << >>]

\* client.list_objects_v2(**kwargs): ContinuationToken is passed only when
\* continuation is set
PageFor(chain, continuation) == chain[continuation + 1]

\* response.get("NextContinuationToken") of a truncated page, whatever it is
NextTokenOf(response) == response.NextContinuationToken

\* lines 643, 676, 793, 886: the operation begins without a token
PagerStarted(op) ==
    /\ pager.state.pc = "idle"
    /\ pager.state.requests = << >>
    /\ pager' = [pager EXCEPT !.state = [IdlePager EXCEPT !.pc = "loop", !.op = op]]
    /\ UNCHANGED pagerFrame

\* lines 644-658, 677-713, 801-850, 887-916: one turn of the loop.  The deep
\* scan also leaves when it has reached its limit.
PagerTurned(limit_reached) ==
    /\ pager.state.pc = "loop"
    /\ Len(pager.state.requests) < MaxListCalls
    /\ limit_reached => pager.state.op = "_scan_prefix_recursive"
    /\ LET response == PageFor(pager.chain, pager.state.continuation)
           s == [pager.state EXCEPT !.requests = Append(@, pager.state.continuation)]
       IN pager' = [pager EXCEPT !.state =
                       IF limit_reached THEN [s EXCEPT !.pc = "returned"]
                       ELSE IF response.IsTruncated
                       THEN [s EXCEPT !.continuation = NextTokenOf(response)]
                       ELSE [s EXCEPT !.pc = "returned"]]
    /\ UNCHANGED pagerFrame

(***************************************************************************)
(* awss/app.py : what a profile switch does to the records of the bucket   *)
(* list (self.buckets), through _switch_bucket_profile, through            *)
(* action_choose_profile when the bucket has no node, and through the      *)
(* fallback of show_prefix; awss/s3.py : the rows save_bucket_cache writes *)
(* afterwards.  A record has the fields of the dataclass BucketInfo.       *)
(* `ledger` holds the list, the list as it was before the switch, the name *)
(* of the switched bucket and how it was switched, and the rows saved.     *)
(***************************************************************************)
MaxSwitches == 2

LedgerNames == <<"bucket-a", "bucket-b">>
LedgerProfiles == {None, "dev", "prod"}
LedgerAccesses == {BUCKET_ACCESS_GOOD, BUCKET_ACCESS_NO_DOWNLOAD, BUCKET_ACCESS_NO_VIEW}
NoAccessGiven == ""

\* the bucket lists a refresh or the cache can leave in self.buckets
LedgerLists ==
    {[k \in DOMAIN LedgerNames |-> BucketInfo(LedgerNames[k], p[k], a[k], e[k])] :
        p \in [DOMAIN LedgerNames -> {None, "dev"}],
        a \in [DOMAIN LedgerNames -> {BUCKET_ACCESS_GOOD, BUCKET_ACCESS_NO_VIEW}],
        e \in [DOMAIN LedgerNames -> BOOLEAN]}

\* lines 1208-1214: _bucket_access_for_name
AccessForName(list, bucket_name) ==
    IF \E k \in DOMAIN list : list[k].name = bucket_name
    THEN list[CHOOSE k \in DOMAIN list :
                 /\ list[k].name = bucket_name
                 /\ \A j \in DOMAIN list : list[j].name = bucket_name => k <= j].access
    ELSE BUCKET_ACCESS_UNKNOWN

\* lines 1856-1857, 1874-1885 and 1930-1942: the record of the bucket is
\* built anew from its name, the profile and the chosen access
SwitchRecords(list, bucket_name, old_profile, new_profile, new_access) ==
    LET chosen_access == IF new_access # NoAccessGiven THEN new_access
                         ELSE AccessForName(list, bucket_name)
    IN [k \in DOMAIN list |->
          IF list[k].name = bucket_name
          THEN BucketInfo(list[k].name,
                            IF old_profile = new_profile THEN list[k].profile
                            ELSE new_profile,
                            chosen_access, FALSE)
          ELSE list[k]]

\* lines 1562-1571: action_choose_profile without a node for the bucket
ChooseRecords(list, bucket_name, profile, access) ==
    [k \in DOMAIN list |->
        IF list[k].name = bucket_name THEN BucketInfo(list[k].name, profile, access, FALSE)
        ELSE list[k]]

\* s3.py lines 497-509: the rows save_bucket_cache writes, the last record of
\* a name, in name order
SavedRows(list) ==
    LET last(name) == list[CHOOSE k \in DOMAIN list :
                              /\ list[k].name = name
                              /\ \A j \in DOMAIN list : list[j].name = name => j <= k]
        named == SelectSeq(LedgerNames,
                           LAMBDA name : \E k \in DOMAIN list : list[k].name = name)
    IN [k \in DOMAIN named |->
          [name |-> named[k], profile |-> last(named[k]).profile,
           access |-> _normalize_bucket_access(last(named[k]).access),
           is_empty |-> last(named[k]).is_empty]]

\* lines 2033-2062 and 2009-2015: show_prefix or its fallback switches the
\* bucket of the shown node
LedgerSwitched(bucket_name, new_profile, new_access) ==
    /\ ledger.pc = "idle"
    /\ ledger.switches < MaxSwitches
    /\ \E k \in DOMAIN ledger.buckets :
         /\ ledger.buckets[k].name = bucket_name
         /\ ledger' = [ledger EXCEPT
                         !.pc = "switched", !.switches = @ + 1,
                         !.before = ledger.buckets, !.switched = bucket_name,
                         !.via = "_switch_bucket_profile",
                         !.buckets = SwitchRecords(ledger.buckets, bucket_name,
                                                   ledger.buckets[k].profile, new_profile,
                                                   new_access)]
    /\ UNCHANGED ledgerFrame

\* lines 1527-1571: the user chose another profile for the bucket, which has
\* no node in the tree
LedgerChosen(bucket_name, profile, access) ==
    /\ ledger.pc = "idle"
    /\ ledger.switches < MaxSwitches
    /\ \E k \in DOMAIN ledger.buckets :
         /\ ledger.buckets[k].name = bucket_name
         /\ ledger.buckets[k].profile # profile
    /\ ledger' = [ledger EXCEPT
                    !.pc = "switched", !.switches = @ + 1,
                    !.before = ledger.buckets, !.switched = bucket_name,
                    !.via = "action_choose_profile",
                    !.buckets = ChooseRecords(ledger.buckets, bucket_name, profile, access)]
    /\ UNCHANGED ledgerFrame

\* lines 1573-1575 and 2022-2024: save_bucket_cache(self.buckets)
LedgerSaved ==
    /\ ledger.pc = "switched"
    /\ ledger' = [ledger EXCEPT !.pc = "saved", !.saved = SavedRows(ledger.buckets)]
    /\ UNCHANGED ledgerFrame

\* the switch is over
LedgerSettled ==
    /\ ledger.pc = "saved"
    /\ ledger' = [ledger EXCEPT !.pc = "idle", !.before = << >>, !.switched = "",
                                !.via = "", !.saved = << >>]
    /\ UNCHANGED ledgerFrame

(***************************************************************************)
(* awss/app.py : refresh_buckets invoked again while an earlier invocation *)
(* is waiting.  An invocation runs from one await to the next in one step. *)
(* What the application holds is named by the load token of the invocation *)
(* that put it there (0 is nothing): the bucket nodes of the tree, the     *)
(* bucket list, the candidate map, and the bucket cache on disk.           *)
(***************************************************************************)
MaxReloads == 3

Reloaders == 1..2

IdleReload == [pc |-> "idle", token |-> 0, has_cached |-> FALSE, has_buckets |-> FALSE,
               errors |-> FALSE]

\* lines 902-906: the application after construction
IdleReloads ==
    [load_token |-> 0, nodes |-> 0, bucket_list |-> 0, candidates |-> 0, cache |-> 0,
     invocations |-> [i \in Reloaders |-> IdleReload]]

\* "if token != self._load_token: return", negated
IsLatest(r, i) == r.invocations[i].token = r.load_token

\* lines 1683-1701: _render_bucket_nodes(buckets) by invocation i: the tree
\* and the registries are cleared, self.buckets is replaced, the candidates
\* of every bucket are set by default, one node per bucket is added
RenderBucketNodes(r, i) ==
    [r EXCEPT !.nodes = r.invocations[i].token,
              !.bucket_list = r.invocations[i].token,
              !.candidates = IF @ = 0 THEN r.invocations[i].token ELSE @]

\* the invocation returns
ReloadReturns(r, i) == [r EXCEPT !.invocations[i] = IdleReload]

\* lines 1703-1711: the invocation takes its token, pushes the overlay and
\* awaits asyncio.sleep(0)
ReloadStarted(i) ==
    /\ reloads.invocations[i].pc = "idle"
    /\ reloads.load_token < MaxReloads
    /\ reloads' = [reloads EXCEPT
                     !.load_token = @ + 1,
                     !.invocations[i] = [IdleReload EXCEPT !.pc = "sleep",
                                                           !.token = reloads.load_token + 1]]
    /\ UNCHANGED reloadsFrame

\* lines 1712-1734: the tree, the registries and the candidate map are
\* cleared; load_bucket_cache is awaited
ReloadCleared(i) ==
    /\ reloads.invocations[i].pc = "sleep"
    /\ reloads' = [reloads EXCEPT !.nodes = 0, !.candidates = 0,
                                  !.invocations[i].pc = "cache"]
    /\ UNCHANGED reloadsFrame

\* lines 1735-1747: the cache has answered; cached buckets are rendered and
\* list_buckets_all is awaited
ReloadCacheLoaded(i, has_cached) ==
    /\ reloads.invocations[i].pc = "cache"
    /\ reloads' =
         IF ~IsLatest(reloads, i) THEN ReloadReturns(reloads, i)
         ELSE LET r == [reloads EXCEPT !.invocations[i].pc = "list",
                                       !.invocations[i].has_cached = has_cached]
              IN IF has_cached
                 THEN RenderBucketNodes([r EXCEPT !.candidates = r.invocations[i].token], i)
                 ELSE r
    /\ UNCHANGED reloadsFrame

\* lines 1747-1776: the listing has answered (after the re-authentication
\* and the second listing, when sessions had expired); the candidate map is
\* replaced and select_best_bucket_profiles is awaited
ReloadListed(i, has_buckets, errors) ==
    /\ reloads.invocations[i].pc = "list"
    /\ reloads' =
         IF ~IsLatest(reloads, i) THEN ReloadReturns(reloads, i)
         ELSE [reloads EXCEPT !.candidates = reloads.invocations[i].token,
                              !.invocations[i].pc = "select",
                              !.invocations[i].has_buckets = has_buckets,
                              !.invocations[i].errors = errors]
    /\ UNCHANGED reloadsFrame

\* lines 1801-1812: the buckets are rendered
ReloadFinish(r, i) == ReloadReturns(RenderBucketNodes(r, i), i)

\* lines 1776-1800: the profiles are chosen; with buckets the cache is
\* written in a thread, without buckets the invocation ends
ReloadSelected(i) ==
    /\ reloads.invocations[i].pc = "select"
    /\ LET inv == reloads.invocations[i]
       IN reloads' =
            IF ~IsLatest(reloads, i) THEN ReloadReturns(reloads, i)
            ELSE IF inv.has_buckets THEN [reloads EXCEPT !.invocations[i].pc = "save"]
            ELSE IF inv.has_cached /\ inv.errors THEN ReloadReturns(reloads, i)
            ELSE ReloadFinish(reloads, i)
    /\ UNCHANGED reloadsFrame

\* line 1783: the thread of save_bucket_cache writes the file
ReloadCacheWritten(i) ==
    /\ reloads.invocations[i].pc = "save"
    /\ reloads' = [reloads EXCEPT !.cache = reloads.invocations[i].token,
                                  !.invocations[i].pc = "saved"]
    /\ UNCHANGED reloadsFrame

\* lines 1783 and 1801-1812: the await of save_bucket_cache returns and the
\* buckets are rendered
ReloadSaved(i) ==
    /\ reloads.invocations[i].pc = "saved"
    /\ reloads' = ReloadFinish(reloads, i)
    /\ UNCHANGED reloadsFrame

(***************************************************************************)
(* awss/app.py : the history list, its cursor (_history_index) and the     *)
(* back and forward buttons, under recordings, back, forward and refresh.  *)
(* `cursor` holds them; discarded is the number of forward entries the     *)
(* last recording dropped.                                                 *)
(***************************************************************************)
MaxHistory == 3

CursorContexts ==
    {NoContext, NodeInfo("prod", ""), NodeInfo("prod", "a/"), NodeInfo("dev", "a/")}

\* a sync that takes the entry after the last for the last
SyncNavButtonsLate(b) ==
    [b EXCEPT !.back_disabled = b.history_index <= 0,
              !.forward_disabled = b.history_index >= Len(b.history)]

\* lines 2589-2593: _sync_nav_buttons
_sync_nav_buttons(b) ==
    [b EXCEPT !.back_disabled = b.history_index <= 0,
              !.forward_disabled = b.history_index >= Len(b.history) - 1]

\* lines 927-928 and 1009: the history after on_mount has synced the buttons
IdleCursor ==
    _sync_nav_buttons([history |-> << >>, history_index |-> 0 - 1,
                       suppress_history_once |-> FALSE, back_disabled |-> FALSE,
                       forward_disabled |-> FALSE, discarded |-> 0])

\* lines 2218-2219, 2242-2243 and 2595-2605: show_prefix or show_bucket_list
\* ends; the context is recorded unless a replay asked to suppress it
CursorShown(context) ==
    /\ cursor' =
         IF cursor.suppress_history_once
         THEN [cursor EXCEPT !.suppress_history_once = FALSE]
         ELSE LET recorded == _record_history_at(cursor, context)
              IN _sync_nav_buttons(
                     [recorded EXCEPT !.discarded =
                         IF recorded.history = cursor.history THEN 0
                         ELSE Len(cursor.history) - (cursor.history_index + 1)])
    /\ Len(cursor'.history) <= MaxHistory
    /\ UNCHANGED cursorFrame

\* lines 1579-1585: action_back
CursorBack ==
    /\ ~(cursor.history_index <= 0)
    /\ cursor' = [_sync_nav_buttons([cursor EXCEPT !.history_index = @ - 1])
                     EXCEPT !.suppress_history_once = TRUE]
    /\ UNCHANGED cursorFrame

\* lines 1587-1593: action_forward
CursorForward ==
    /\ ~(cursor.history_index >= Len(cursor.history) - 1)
    /\ cursor' = [_sync_nav_buttons([cursor EXCEPT !.history_index = @ + 1])
                     EXCEPT !.suppress_history_once = TRUE]
    /\ UNCHANGED cursorFrame

\* lines 1723-1726: refresh_buckets empties the history
CursorRefreshed ==
    /\ cursor' = _sync_nav_buttons([cursor EXCEPT !.history = << >>,
                                                  !.history_index = 0 - 1,
                                                  !.suppress_history_once = FALSE,
                                                  !.discarded = 0])
    /\ UNCHANGED cursorFrame

ResolveIdle ==
    /\ rpc = "idle"
    /\ probe_keys = << >>
    /\ probe_results = << >>
    /\ calls = {}
    /\ resolved = << >>
    /\ outcome = "none"

\* select_best_bucket_profiles is not called: its variables hold nothing
ResolveUnused ==
    /\ rpc = << >>
    /\ probe_keys = << >>
    /\ probe_results = << >>
    /\ calls = << >>
    /\ resolved = << >>
    /\ outcome = << >>

InitResolve ==
    /\ profiles \in Configs
    /\ buckets \in Listings(profiles)
    /\ ResolveIdle
    /\ SsoUnused
    /\ CacheUnused
    /\ AtomicUnused
    /\ PreviewUnused
    /\ NavUnused
    /\ ListUnused
    /\ ProbeUnused
    /\ ListAllUnused
    /\ RefreshUnused
    /\ RestUnused
    /\ TreeUnused

\* select_best_bucket_profiles up to its await: by_name, the early return,
\* the creation of one probe task per (bucket, configured profile)
SelectStart ==
    /\ rpc = "idle"
    /\ IF Len(ByNameKeys(buckets)) = 0
       THEN /\ rpc' = "done"
            /\ outcome' = "returned"
            /\ UNCHANGED <<probe_keys, probe_results>>
       ELSE /\ rpc' = "probing"
            /\ probe_keys' = ProbeKeys(buckets, profiles)
            /\ probe_results' = [i \in DOMAIN ProbeKeys(buckets, profiles) |-> "pending"]
            /\ UNCHANGED outcome
    /\ UNCHANGED <<profiles, buckets, calls, resolved, resolveFrame>>

\* one probe task runs in its worker thread and delivers a value or raises
ProbeRun(i) ==
    /\ rpc = "probing"
    /\ probe_results[i] = "pending"
    /\ \E r \in ProbeOutcomes :
         /\ probe_results' = [probe_results EXCEPT ![i] = r]
         /\ calls' = calls \cup {probe_keys[i]}
         /\ IF IsException(r) /\ ~GatherReturnExceptions
            THEN rpc' = "done" /\ outcome' = "raised"
            ELSE UNCHANGED <<rpc, outcome>>
    /\ UNCHANGED <<profiles, buckets, probe_keys, resolved, resolveFrame>>

\* gather has every result: score them, rank the profiles, return
SelectResolve ==
    /\ rpc = "probing"
    /\ \A i \in DOMAIN probe_results : probe_results[i] # "pending"
    /\ resolved' = ResolveAll(probe_keys, probe_results, profiles, buckets)
    /\ rpc' = "done"
    /\ outcome' = "returned"
    /\ UNCHANGED <<profiles, buckets, probe_keys, probe_results, calls, resolveFrame>>

NextResolve ==
    \/ SelectStart
    \/ \E i \in DOMAIN probe_results : ProbeRun(i)
    \/ SelectResolve

SpecResolve == InitResolve /\ [][NextResolve]_vars

InitSso ==
    /\ profiles = SsoProfiles
    /\ buckets = << >>
    /\ ResolveUnused
    /\ SsoIdle
    /\ CacheUnused
    /\ AtomicUnused
    /\ PreviewUnused
    /\ NavUnused
    /\ ListUnused
    /\ ProbeUnused
    /\ ListAllUnused
    /\ RefreshUnused
    /\ RestUnused
    /\ TreeUnused

NextSso ==
    \/ \E c \in Callers : CallWithSsoRetry(c)
    \/ \E c \in Callers : OperationReturns(c)
    \/ \E c \in Callers : OperationRaises(c)
    \/ \E c \in Callers : ReauthDirect(c)
    \/ \E t \in DOMAIN tasks : LoginStart(t)
    \/ \E t \in DOMAIN tasks : LoginDone(t)
    \/ \E c \in Callers : ReauthResume(c)
    \/ \E c \in Callers : RetryReturns(c)
    \/ \E c \in Callers : RetryRaises(c)
    \/ \E c \in Callers : CallerDone(c)

SpecSso == InitSso /\ [][NextSso]_vars

TtlChoices == {0, 1}

InitCache ==
    /\ profiles = SsoProfiles
    /\ buckets = << >>
    /\ ResolveUnused
    /\ SsoUnused
    /\ aws_files \in [Range(AwsSources) -> {Absent, "v1"}]
    /\ cache_file = NoFile
    /\ now = 0
    /\ cache_ttl \in TtlChoices
    /\ cache_pc = "idle"
    /\ cache_input \in RecordLists
    /\ last_save = NoSave
    /\ load_result = << >>
    /\ load_call = NoLoad
    /\ AtomicUnused
    /\ PreviewUnused
    /\ NavUnused
    /\ ListUnused
    /\ ProbeUnused
    /\ ListAllUnused
    /\ RefreshUnused
    /\ RestUnused
    /\ TreeUnused

NextCache ==
    \/ SaveBucketCache
    \/ LoadBucketCache
    \/ CacheCallDone
    \/ Tick
    \/ AwsFileChanges
    \/ CacheFileReplaced

SpecCache == InitCache /\ [][NextCache]_vars

InitAtomic ==
    /\ profiles = SsoProfiles
    /\ buckets = << >>
    /\ ResolveUnused
    /\ SsoUnused
    /\ aws_files \in [Range(AwsSources) -> {Absent, "v1"}]
    /\ cache_file = NoFile
    /\ now = 0
    /\ cache_ttl = 0
    /\ cache_pc = "idle"
    /\ cache_input \in {bs \in RecordLists : Len(bs) = 1}
    /\ last_save = NoSave
    /\ load_result = << >>
    /\ load_call = NoLoad
    /\ AtomicIdle
    /\ PreviewUnused
    /\ NavUnused
    /\ ListUnused
    /\ ProbeUnused
    /\ ListAllUnused
    /\ RefreshUnused
    /\ RestUnused
    /\ TreeUnused

NextAtomic ==
    \/ SaveEnter
    \/ SaveOpen
    \/ SaveWritePart
    \/ SaveWriteRest
    \/ SaveReplace
    \/ SaveFails
    \/ SaveLeave
    \/ \E r \in Readers : ReaderReads(r)
    \/ \E r \in Readers : ReaderLeaves(r)
    \/ Tick

SpecAtomic == InitAtomic /\ [][NextAtomic]_vars

InitPreview ==
    /\ profiles = SsoProfiles
    /\ buckets = << >>
    /\ ResolveUnused
    /\ SsoUnused
    /\ CacheUnused
    /\ AtomicUnused
    /\ PreviewIdle
    /\ NavUnused
    /\ ListUnused
    /\ ProbeUnused
    /\ ListAllUnused
    /\ RefreshUnused
    /\ RestUnused
    /\ TreeUnused

NextPreview ==
    \/ \E i \in Loads : LoadPreviewStart(i)
    \/ \E i \in Loads : LoadPreviewFinish(i)
    \/ \E i \in Loads : LoadMoreStart(i)
    \/ \E i \in Loads : LoadMoreFinish(i)
    \/ \E i \in Loads : LoadStatsStart(i)
    \/ \E i \in Loads : LoadStatsFinish(i)
    \/ \E i \in Loads : LoadDeepStart(i)
    \/ \E i \in Loads : LoadDeepFinish(i)
    \/ \E i \in Loads : LoadLeave(i)
    \/ ShowBucketList

SpecPreview == InitPreview /\ [][NextPreview]_vars

InitNav ==
    /\ profiles = SsoProfiles
    /\ buckets = << >>
    /\ ResolveUnused
    /\ SsoUnused
    /\ CacheUnused
    /\ AtomicUnused
    /\ PreviewIdle
    /\ NavIdle
    /\ ListUnused
    /\ ProbeUnused
    /\ ListAllUnused
    /\ RefreshUnused
    /\ RestUnused
    /\ TreeUnused

NextNav ==
    \/ \E i \in Shows, prefix \in NavPrefixes : ShowPrefix(i, prefix)
    \/ \E i \in Shows : ResolveReturns(i)
    \/ \E i \in Shows : ListReturns(i)
    \/ \E i \in Shows : ListRaises(i)
    \/ \E i \in Shows : FallbackFails(i)
    \/ \E i \in Shows : FallbackLists(i)
    \/ \E i \in Shows : FallbackSwitches(i)
    \/ \E i \in Shows : FallbackReturns(i)
    \/ \E i \in Shows : AccessReturns(i)

SpecNav == InitNav /\ [][NextNav]_vars

InitList ==
    /\ profiles = SsoProfiles
    /\ buckets = << >>
    /\ ResolveUnused
    /\ SsoUnused
    /\ CacheUnused
    /\ AtomicUnused
    /\ PreviewUnused
    /\ NavUnused
    /\ list_data \in ListData
    /\ page_size \in 1..MaxPage
    /\ lister = IdleLister
    /\ ProbeUnused
    /\ ListAllUnused
    /\ RefreshUnused
    /\ RestUnused
    /\ TreeUnused

NextList ==
    \/ ListStart
    \/ ListPage
    \/ \E prefix \in ScanPrefixes, max_keys \in {NoLimit} \cup (0..MaxScan) :
          ScanStart(prefix, max_keys)
    \/ ScanPage
    \/ ListerDone

SpecList == InitList /\ [][NextList]_vars

InitProbe ==
    /\ profiles = SsoProfiles
    /\ buckets = << >>
    /\ ResolveUnused
    /\ SsoUnused
    /\ CacheUnused
    /\ AtomicUnused
    /\ PreviewUnused
    /\ NavUnused
    /\ ListUnused
    /\ probe_backend \in ProbeBackends
    /\ probe = NoProbe
    /\ ListAllUnused
    /\ RefreshUnused
    /\ RestUnused
    /\ TreeUnused

NextProbe == ProbeCall

SpecProbe == InitProbe /\ [][NextProbe]_vars

InitListAll ==
    /\ profiles \in Configs
    /\ buckets = << >>
    /\ ResolveUnused
    /\ SsoUnused
    /\ CacheUnused
    /\ AtomicUnused
    /\ PreviewUnused
    /\ NavUnused
    /\ ListUnused
    /\ ProbeUnused
    /\ ListAllIdle
    /\ RefreshUnused
    /\ RestUnused
    /\ TreeUnused

NextListAll ==
    \/ ListBucketsAll
    \/ \E i \in DOMAIN profiles : ListBucketsThread(i)
    \/ ListBucketsCollect

SpecListAll == InitListAll /\ [][NextListAll]_vars

InitRefresh ==
    /\ profiles = SsoProfiles
    /\ buckets = << >>
    /\ ResolveUnused
    /\ SsoUnused
    /\ CacheUnused
    /\ AtomicUnused
    /\ PreviewUnused
    /\ NavUnused
    /\ ListUnused
    /\ ProbeUnused
    /\ ListAllUnused
    /\ RefreshIdle
    /\ RestUnused
    /\ TreeUnused

NextRefresh ==
    \/ RefreshBuckets
    \/ RefreshCacheLoaded
    \/ RefreshListed
    \/ RefreshReauthDone
    \/ RefreshRelisted
    \/ RefreshSelected
    \/ RefreshSaved

SpecRefresh == InitRefresh /\ [][NextRefresh]_vars

\* the state refresh_buckets leaves: _render_bucket_nodes has selected the
\* root, whose NodeSelected message is on its way
InitTree ==
    /\ profiles = TreeProfiles
    /\ buckets = << >>
    /\ ResolveUnused
    /\ SsoUnused
    /\ CacheUnused
    /\ AtomicUnused
    /\ PreviewUnused
    /\ NavUnused
    /\ ListUnused
    /\ ProbeUnused
    /\ ListAllUnused
    /\ RefreshUnused
    /\ RestUnused
    /\ s3_tree = select_node(IdleTree, Root, FALSE, << >>, Root)
    /\ browser = IdleBrowser
    /\ tree_shows = [i \in TreeShows |-> IdleTreeShow]

NextTree ==
    \/ \E n \in 0..MaxNodes : TreeNodeClicked(n)
    \/ \E prefix \in TreePrefixes : on_input_submitted(prefix)
    \/ action_back
    \/ action_forward
    \/ SelectedRoot
    \/ \E i \in TreeShows :
         \/ SelectedNode(i)
         \/ TreeResolved(i)
         \/ TreeListed(i)
         \/ TreeListRaised(i)
         \/ TreeFallbackRaised(i)
         \/ TreeFallbackListed(i)
         \/ TreeFallbackSwitched(i)
         \/ TreeFallbackReturned(i)

SpecTree == InitTree /\ [][NextTree]_vars

\* the history under navigations whose listing returns, with one profile
InitHistory ==
    /\ profiles = <<"prod">>
    /\ buckets = << >>
    /\ ResolveUnused
    /\ SsoUnused
    /\ CacheUnused
    /\ AtomicUnused
    /\ PreviewUnused
    /\ NavUnused
    /\ ListUnused
    /\ ProbeUnused
    /\ ListAllUnused
    /\ RefreshUnused
    /\ RestUnused
    /\ s3_tree = select_node(IdleTree, Root, FALSE, << >>, Root)
    /\ browser = IdleBrowser
    /\ tree_shows = [i \in TreeShows |-> IdleTreeShow]

NextHistory ==
    \/ \E n \in 0..MaxNodes : TreeNodeClicked(n)
    \/ \E prefix \in TreePrefixes : on_input_submitted(prefix)
    \/ action_back
    \/ action_forward
    \/ SelectedRoot
    \/ \E i \in TreeShows :
         \/ SelectedNode(i)
         \/ TreeResolved(i)
         \/ TreeListed(i)

SpecHistory == InitHistory /\ [][NextHistory]_vars

\* the fallback of one navigation: the bucket is remembered under any of
\* three profiles, the bucket list is shown and a path has been submitted
SwitchProfiles == <<None, "dev", "prod">>

InitFallback ==
    /\ profiles = SwitchProfiles
    /\ buckets = << >>
    /\ ResolveUnused
    /\ SsoUnused
    /\ CacheUnused
    /\ AtomicUnused
    /\ PreviewUnused
    /\ NavUnused
    /\ ListUnused
    /\ ProbeUnused
    /\ ListAllUnused
    /\ RefreshUnused
    /\ RestUnused
    /\ \E profile \in Range(SwitchProfiles), prefix \in TreePrefixes :
         /\ s3_tree = navigate_to(RenderedTree(profile), profile, prefix, FALSE)
         /\ browser = show_bucket_list(RefreshedBrowser(profile))
    /\ tree_shows = [i \in TreeShows |-> IdleTreeShow]

NextFallback ==
    \E i \in TreeShows :
        \/ SelectedNode(i)
        \/ TreeResolved(i)
        \/ TreeListed(i)
        \/ TreeListRaised(i)
        \/ TreeFallbackRaised(i)
        \/ TreeFallbackListed(i)
        \/ TreeFallbackSwitched(i)
        \/ TreeFallbackReturned(i)

SpecFallback == InitFallback /\ [][NextFallback]_vars

OldUnused ==
    /\ ResolveUnused /\ SsoUnused /\ CacheUnused /\ AtomicUnused
    /\ PreviewUnused /\ NavUnused /\ ListUnused /\ ProbeUnused
    /\ ListAllUnused /\ RefreshUnused /\ TreeUnused

InitExpand ==
    /\ profiles = <<"prod">>
    /\ buckets = <<"b1">>
    /\ OldUnused
    /\ ExpansionOnly
    /\ expansion = IdleExpansion

NextExpand ==
    \/ \E h \in Expanders : NodeExpanded(h)
    \/ \E h \in Expanders : ExpandRaised(h)
    \/ \E h \in Expanders : \E prefixes \in PrefixLists : ExpandListed(h, prefixes)
    \/ \E prefixes \in PrefixLists : ShowSynced(prefixes)
    \/ \E k \in DOMAIN ChildPrefixes : ChildEnsured(ChildPrefixes[k])
    \/ PendingRolledBack
    \/ PendingCleared

SpecExpand == InitExpand /\ [][NextExpand]_vars

InitPane ==
    /\ profiles = <<"prod">>
    /\ buckets = <<"b1">>
    /\ OldUnused
    /\ PaneOnly
    /\ pane = IdlePane

NextPane ==
    \/ \E count \in 0..2 : ObjectRowClicked(count)
    \/ SelectionCleared
    \/ \E i \in PaneLoads, key \in PaneKeys : PaneLoadPreview(i, key)
    \/ \E i \in PaneLoads, raised \in BOOLEAN : PaneHeadAnswered(i, raised)
    \/ \E i \in PaneLoads : PaneLoadMore(i)
    \/ \E i \in PaneLoads, raised \in BOOLEAN : PaneRangeAnswered(i, raised)
    \/ PaneBucketListShown

SpecPane == InitPane /\ [][NextPane]_vars

InitClients ==
    /\ profiles = <<"dev", "prod">>
    /\ buckets = << >>
    /\ OldUnused
    /\ ClientsOnly
    /\ clients = IdleClients

NextClients ==
    \/ \E t \in ClientThreads, profile \in ClientProfiles : ClientLookedUp(t, profile)
    \/ \E t \in ClientThreads : ClientConstructed(t)
    \/ \E t \in ClientThreads : ClientStored(t)

SpecClients == InitClients /\ [][NextClients]_vars

InitPager ==
    /\ profiles = <<"prod">>
    /\ buckets = <<"b1">>
    /\ OldUnused
    /\ PagerOnly
    /\ \E chain \in PageChains : pager = [chain |-> chain, state |-> IdlePager]

NextPager ==
    \/ \E op \in PagedOps : PagerStarted(op)
    \/ \E limit_reached \in BOOLEAN : PagerTurned(limit_reached)

SpecPager == InitPager /\ [][NextPager]_vars

InitLedger ==
    /\ profiles = <<None, "dev", "prod">>
    /\ buckets = << >>
    /\ OldUnused
    /\ LedgerOnly
    /\ \E list \in LedgerLists :
         ledger = [pc |-> "idle", buckets |-> list, before |-> << >>, switched |-> "",
                   via |-> "", saved |-> << >>, switches |-> 0]

NextLedger ==
    \/ \E k \in DOMAIN LedgerNames, new_profile \in LedgerProfiles,
          new_access \in LedgerAccesses \cup {NoAccessGiven} :
            LedgerSwitched(LedgerNames[k], new_profile, new_access)
    \/ \E k \in DOMAIN LedgerNames, profile \in LedgerProfiles,
          access \in LedgerAccesses :
            LedgerChosen(LedgerNames[k], profile, access)
    \/ LedgerSaved
    \/ LedgerSettled

SpecLedger == InitLedger /\ [][NextLedger]_vars

InitReloads ==
    /\ profiles = <<"prod">>
    /\ buckets = << >>
    /\ OldUnused
    /\ ReloadsOnly
    /\ reloads = IdleReloads

NextReloads ==
    \/ \E i \in Reloaders : ReloadStarted(i)
    \/ \E i \in Reloaders : ReloadCleared(i)
    \/ \E i \in Reloaders, has_cached \in BOOLEAN : ReloadCacheLoaded(i, has_cached)
    \/ \E i \in Reloaders, has_buckets \in BOOLEAN, errors \in BOOLEAN :
          ReloadListed(i, has_buckets, errors)
    \/ \E i \in Reloaders : ReloadSelected(i)
    \/ \E i \in Reloaders : ReloadCacheWritten(i)
    \/ \E i \in Reloaders : ReloadSaved(i)

SpecReloads == InitReloads /\ [][NextReloads]_vars

InitCursor ==
    /\ profiles = <<"dev", "prod">>
    /\ buckets = << >>
    /\ OldUnused
    /\ CursorOnly
    /\ cursor = IdleCursor

NextCursor ==
    \/ \E context \in CursorContexts : CursorShown(context)
    \/ CursorBack
    \/ CursorForward
    \/ CursorRefreshed

SpecCursor == InitCursor /\ [][NextCursor]_vars

(***************************************************************************)
(* Properties of select_best_bucket_profiles (SpecResolve).                *)
(* They are stated on the inputs (profiles, buckets) and the delivered     *)
(* probe values, not through the operators of the implementation.          *)
(***************************************************************************)
InputNames == {buckets[i].name : i \in DOMAIN buckets}
Configured == Range(profiles)

\* the value the probe of profile p delivered for bucket n
Probed(n, p) == probe_results[CHOOSE i \in DOMAIN probe_keys : probe_keys[i] = <<n, p>>]

\* its access level, unknown and a raised error counted as no_view
ProbedLevel(n, p) ==
    IF Probed(n, p) = "good" THEN 2 ELSE IF Probed(n, p) = "no_download" THEN 1 ELSE 0

BestLevel(n) ==
    CHOOSE l \in 0..2 : /\ \E p \in Configured : ProbedLevel(n, p) = l
                        /\ \A p \in Configured : ProbedLevel(n, p) <= l

LevelOfAccess(a) == IF a = "good" THEN 2 ELSE IF a = "no_download" THEN 1 ELSE 0

ListedBy(n) == {buckets[i].profile : i \in {j \in DOMAIN buckets : buckets[j].name = n}}

RankOf(p) == CHOOSE i \in DOMAIN profiles : profiles[i] = p

NonDefault(p) == IF p = None THEN 0 ELSE 1
IsListed(n, p) == IF p \in ListedBy(n) THEN 1 ELSE 0

RecordsOf(n) == {i \in DOMAIN resolved : resolved[i].name = n}
RecordOf(n) == resolved[CHOOSE i \in DOMAIN resolved : resolved[i].name = n]

Returned == rpc = "done" /\ outcome = "returned"

\* C1: every configured profile is probed for every distinct bucket name, also
\* the profiles that did not list it, and the returned record of a bucket has
\* the maximum access level probed over the configured profiles (unknown as no_view).
C1_ProbesAllAndMaxLevel ==
    Returned =>
        \A n \in InputNames :
            /\ \A p \in Configured : <<n, p>> \in calls
            /\ Cardinality(RecordsOf(n)) = 1
            /\ LevelOfAccess(RecordOf(n).access) = BestLevel(n)

\* a profile that did not list the bucket is the only one with the best level
C1_Witness ==
    /\ Returned
    /\ \E n \in InputNames : \E p \in Configured \ ListedBy(n) :
         /\ ProbedLevel(n, p) = 2
         /\ \A q \in Configured \ {p} : ProbedLevel(n, q) < 2
         /\ \E q \in Configured : Probed(n, q) = "unknown"
         /\ RecordOf(n).access = "good"

\* C2 (as stated): among the configured profiles with the level of the chosen
\* one, a named profile is chosen over the default one, and with the same
\* defaultness the earlier configured profile is chosen.
C2_AsStated ==
    Returned =>
        \A n \in InputNames :
            LET c == RecordOf(n).profile
            IN \A q \in Configured \ {c} :
                 ProbedLevel(n, q) = ProbedLevel(n, c) =>
                    /\ NonDefault(q) <= NonDefault(c)
                    /\ NonDefault(q) = NonDefault(c) => RankOf(c) < RankOf(q)

\* C2 (amended): when the best level is above no_view, among the configured
\* profiles with that level a named profile is chosen over the default one,
\* and with the same defaultness and the same listing status the earlier
\* configured one; when every profile probes no_view the same two preferences
\* hold among the profiles that listed the bucket.
C2_TieBreak ==
    Returned =>
        \A n \in InputNames :
            LET c == RecordOf(n).profile
                rivals == IF BestLevel(n) > 0
                          THEN {q \in Configured : ProbedLevel(n, q) = BestLevel(n)}
                          ELSE ListedBy(n)
            IN /\ c \in rivals
               /\ \A q \in rivals \ {c} :
                    /\ NonDefault(q) <= NonDefault(c)
                    /\ (NonDefault(q) = NonDefault(c) /\ IsListed(n, q) = IsListed(n, c))
                          => RankOf(c) < RankOf(q)

\* a named profile wins against an earlier default one of the same level, and
\* against a later named one of the same level and listing status
C2_Witness ==
    /\ Returned
    /\ \E n \in InputNames :
         LET c == RecordOf(n).profile
         IN /\ BestLevel(n) = 1
            /\ c # None
            /\ None \in Configured /\ ProbedLevel(n, None) = 1 /\ RankOf(None) < RankOf(c)
            /\ \E q \in Configured \ {c, None} :
                 /\ ProbedLevel(n, q) = 1
                 /\ IsListed(n, q) = IsListed(n, c)
                 /\ RankOf(c) < RankOf(q)

\* C3: for a bucket whose best level is above no_view, the returned profile is
\* the configured profile with the greatest key
\* (level, non-default, listed the bucket, -configured rank).
C3_LexicographicKey ==
    Returned =>
        \A n \in InputNames :
            BestLevel(n) > 0 =>
                LET c == RecordOf(n).profile
                    K(p) == <<ProbedLevel(n, p), NonDefault(p), IsListed(n, p), 0 - RankOf(p)>>
                IN /\ c \in Configured
                   /\ \A q \in Configured \ {c} : TupleLess(K(q), K(c))

\* a later profile that listed the bucket wins against an earlier one of the
\* same level and defaultness that did not
C3_Witness ==
    /\ Returned
    /\ \E n \in InputNames :
         LET c == RecordOf(n).profile
         IN /\ BestLevel(n) > 0
            /\ c \in ListedBy(n)
            /\ \E q \in Configured \ ListedBy(n) :
                 /\ ProbedLevel(n, q) = ProbedLevel(n, c)
                 /\ NonDefault(q) = NonDefault(c)
                 /\ RankOf(q) < RankOf(c)

\* C4: when every configured profile probes no_view or unknown for a bucket,
\* a record is still returned for it, with access no_view and the best-ranked
\* (named before default, then configuration order) profile among those that
\* listed the bucket, or among the configured ones when none listed it.
C4_NoViewFallback ==
    Returned =>
        \A n \in InputNames :
            BestLevel(n) = 0 =>
                LET c == RecordOf(n).profile
                    pool == IF ListedBy(n) # {} THEN ListedBy(n) ELSE Configured
                IN /\ Cardinality(RecordsOf(n)) = 1
                   /\ RecordOf(n).access = "no_view"
                   /\ c \in pool
                   /\ \A q \in pool \ {c} :
                        \/ NonDefault(q) < NonDefault(c)
                        \/ NonDefault(q) = NonDefault(c) /\ RankOf(c) < RankOf(q)

\* all probes of a bucket are no_view or unknown, and the chosen profile listed
\* the bucket although an unlisted configured profile ranks better
C4_Witness ==
    /\ Returned
    /\ \E n \in InputNames :
         /\ \A p \in Configured : Probed(n, p) \in {"no_view", "unknown"}
         /\ \E p \in Configured : Probed(n, p) = "unknown"
         /\ RecordOf(n).access = "no_view"
         /\ RecordOf(n).profile = None
         /\ \E q \in Configured \ ListedBy(n) : q # None

\* C5: select_best_bucket_profiles never raises because of raising probes; it
\* returns one record per bucket, and the result is the one obtained when each
\* raising probe had delivered no_view instead, the other probes unchanged.
C5_ProbeErrorsSwallowed ==
    /\ outcome # "raised"
    /\ Returned =>
         /\ \A n \in InputNames : Cardinality(RecordsOf(n)) = 1
         /\ Len(resolved) = Cardinality(InputNames)
         /\ resolved = ResolveAll(probe_keys,
                                  [i \in DOMAIN probe_results |->
                                      IF probe_results[i] = SsoExpiredError
                                      THEN "no_view" ELSE probe_results[i]],
                                  profiles, buckets)
         /\ \A n \in InputNames :
              LevelOfAccess(RecordOf(n).access) >= BestLevel(n)

\* a probe raised and another probe of the same bucket still counts as good
C5_Witness ==
    /\ Returned
    /\ \E n \in InputNames :
         /\ \E p \in Configured : Probed(n, p) = SsoExpiredError
         /\ RecordOf(n).access = "good"
    /\ \E n \in InputNames :
         /\ \A p \in Configured : Probed(n, p) = SsoExpiredError
         /\ RecordOf(n).access = "no_view"

(***************************************************************************)
(* Properties of _reauth_sso_profile and _call_with_sso_retry (SpecSso).   *)
(***************************************************************************)
TasksOf(l) == {t \in DOMAIN tasks : tasks[t].label = l}
Running(t) == tasks[t].state # "done"
LabelOf(c) == IF callers[c].profile = None THEN "default" ELSE callers[c].profile
Awaiting(c) == callers[c].pc = "await_reauth"
PastReauth(c) == callers[c].reauths > 0 /\ ~Awaiting(c)

\* C6: callers of _reauth_sso_profile for one label while a login is in flight
\* share one do_login task: no label ever has two unfinished tasks, every
\* task invokes _run_sso_login once, the callers waiting for an unfinished
\* login all wait for the task of the map, and each caller receives the
\* result of the task it waited for.
C6_SingleFlight ==
    /\ \A l \in Labels :
         /\ Cardinality({t \in TasksOf(l) : Running(t)}) <= 1
         /\ login_calls[l] = Cardinality({t \in TasksOf(l) : tasks[t].state # "created"})
         /\ login_calls[l] <= Cardinality(TasksOf(l))
    /\ \A c \in Callers :
         /\ Awaiting(c) =>
              /\ callers[c].inflight \in TasksOf(LabelOf(c))
              /\ Running(callers[c].inflight) =>
                    sso_reauth_inflight[LabelOf(c)] = callers[c].inflight
         /\ PastReauth(c) =>
              /\ callers[c].inflight \in TasksOf(LabelOf(c))
              /\ ~Running(callers[c].inflight)
              /\ callers[c].relogged = tasks[callers[c].inflight].result

\* two callers are suspended on the same task, whose single login invocation
\* has returned success: both will resume with that result
C6_Witness ==
    \E c1 \in Callers : \E c2 \in Callers \ {c1} :
        /\ Awaiting(c1) /\ Awaiting(c2)
        /\ callers[c1].inflight = callers[c2].inflight
        /\ tasks[callers[c1].inflight].state = "done"
        /\ tasks[callers[c1].inflight].result
        /\ login_calls[LabelOf(c1)] = 1
        /\ Cardinality(TasksOf(LabelOf(c1))) = 1

C7_Cleared ==
    \A l \in Labels :
        (sso_reauth_inflight[l] # NoTask /\ ~Running(sso_reauth_inflight[l])) =>
            \E c \in Callers : Awaiting(c) /\ callers[c].inflight = sso_reauth_inflight[l]

C7_Step ==
    /\ C7_Cleared'
    /\ \A l \in Labels :
         LET t == sso_reauth_inflight[l]
         IN /\ (t # NoTask /\ sso_reauth_inflight'[l] # t) => ~Running(t)
            /\ (t # NoTask /\ Running(t)) =>
                  \A u \in DOMAIN tasks' : u \in DOMAIN tasks \/ tasks'[u].label # l
    /\ \A c \in Callers :
         LET l == IF callers'[c].profile = None THEN "default" ELSE callers'[c].profile
         IN (callers'[c].reauths > callers[c].reauths /\ sso_reauth_inflight[l] = NoTask) =>
               /\ Len(tasks') = Len(tasks) + 1
               /\ tasks'[Len(tasks')].label = l
               /\ tasks'[Len(tasks')].state = "created"
               /\ sso_reauth_inflight'[l] = Len(tasks')

C8_RetryOnce ==
    \A c \in Callers :
        callers[c].kind = "retry" =>
            /\ callers[c].op_calls <= 2
            /\ callers[c].reauths <= 1
            /\ callers[c].op_calls = 2 =>
                 /\ callers[c].first_err \in ExpiredErrors
                 /\ callers[c].reauths = 1
                 /\ tasks[callers[c].inflight].state = "done"
                 /\ tasks[callers[c].inflight].result = TRUE
            /\ (PastReauth(c) /\ tasks[callers[c].inflight].result = FALSE) =>
                 /\ callers[c].pc = "raised"
                 /\ callers[c].op_calls = 1
                 /\ callers[c].err = callers[c].first_err
            /\ (PastReauth(c) /\ tasks[callers[c].inflight].result = TRUE) =>
                 /\ callers[c].op_calls = 2
                 /\ callers[c].pc \in {"op2", "returned", "raised"}

\* one call raised the error of its retry, another raised its original error
\* after a failed login
C8_Witness ==
    \E c1 \in Callers : \E c2 \in Callers \ {c1} :
        /\ callers[c1].pc = "raised" /\ callers[c1].op_calls = 2
        /\ callers[c1].err # callers[c1].first_err
        /\ callers[c2].pc = "raised" /\ callers[c2].op_calls = 1
        /\ callers[c2].reauths = 1
        /\ callers[c2].err = "ErrSsoSession"

\* C9: when the operation raises an error that is not classified as
\* session-expired, that error is raised to the caller after exactly one
\* invocation and the call starts no re-authentication.
C9_OtherErrorsPropagate ==
    \A c \in Callers :
        (callers[c].first_err # "NoError" /\ callers[c].first_err \notin ExpiredErrors) =>
            /\ callers[c].pc = "raised"
            /\ callers[c].err = callers[c].first_err
            /\ callers[c].op_calls = 1
            /\ callers[c].reauths = 0
            /\ callers[c].inflight = NoTask

\* a call raised a token error that is no session expiry while another call
\* waits for a login
C9_Witness ==
    \E c1 \in Callers : \E c2 \in Callers \ {c1} :
        /\ callers[c1].pc = "raised"
        /\ callers[c1].err = "ErrInvalidToken"
        /\ callers[c1].op_calls = 1
        /\ Awaiting(c2) /\ LabelOf(c2) = LabelOf(c1)
        /\ tasks[callers[c2].inflight].state = "login"

(***************************************************************************)
(* Properties of the bucket cache (SpecCache).                             *)
(***************************************************************************)
\* the load that has just returned follows a save, the fingerprint is the one
\* of the save and the time-to-live (0: none) has not passed since the save
LoadFollowsSave ==
    /\ cache_pc = "loaded"
    /\ ~load_call.ignore_ttl
    /\ last_save.called
    /\ _aws_config_hash(aws_files) = last_save.hash
    /\ (cache_ttl = 0 \/ now - last_save.at <= cache_ttl)

DistinctNames(bs) ==
    \A i \in DOMAIN bs : \A j \in DOMAIN bs : bs[i].name = bs[j].name => i = j

\* C10 (as stated): for every list of bucket records, a save followed by a
\* load with the fingerprint unchanged and the TTL not exceeded returns the
\* same records, irrespective of order.
C10_AsStated ==
    LoadFollowsSave => Range(load_result) = Range(cache_input)

\* C10 (amended): the same for every list whose records have distinct bucket
\* names, when save_bucket_cache returned True.
C10_RoundTrip ==
    (LoadFollowsSave /\ last_save.ok /\ DistinctNames(cache_input)) =>
        /\ Range(load_result) = Range(cache_input)
        /\ Len(load_result) = Len(cache_input)

\* two records saved out of name order, one of the default profile and one
\* marked empty, are loaded a second later within the TTL
C10_Witness ==
    /\ LoadFollowsSave
    /\ last_save.ok
    /\ cache_ttl > 0
    /\ now > last_save.at
    /\ Len(cache_input) = 2
    /\ DistinctNames(cache_input)
    /\ cache_input[1].name = "bucket-b" /\ cache_input[1].is_empty
    /\ cache_input[2].profile = None
    /\ load_result # cache_input
    /\ Range(load_result) = Range(cache_input)

\* a call load_bucket_cache() has just returned
PlainLoad == cache_pc = "loaded" /\ ~load_call.ignore_ttl

HasFile == cache_file # NoFile
LiveHash == _aws_config_hash(aws_files)
StoredHash == cache_file[1].aws_config_sha256
NoSourceFile == \A f \in Range(AwsSources) : aws_files[f] = Absent

\* the file is the one the latest save_bucket_cache wrote, for a non-empty list
SavedNonEmpty == last_save.ok /\ Len(cache_input) > 0
WithinTtl == now - last_save.at <= cache_ttl

\* C11: when the fingerprint at load time differs from the fingerprint stored
\* in the cache file, load_bucket_cache returns the empty list, also when
\* saved_at is within the TTL.
C11_FingerprintMismatch ==
    (PlainLoad /\ HasFile /\ StoredHash # LiveHash) =>
        load_result = << >> /\ load_call.raised = "none"

\* a non-empty cache saved under one defined fingerprint is loaded within
\* the TTL under another defined fingerprint
C11_Witness ==
    /\ PlainLoad /\ SavedNonEmpty
    /\ last_save.hash # NoHash /\ LiveHash # NoHash
    /\ StoredHash = last_save.hash /\ StoredHash # LiveHash
    /\ cache_ttl > 0 /\ WithinTtl
    /\ load_result = << >>

\* C12 (as stated): when no source file exists at save time and at load time,
\* load_bucket_cache returns the empty list even for a freshly saved,
\* non-empty cache.
C12_AsStated ==
    (PlainLoad /\ SavedNonEmpty /\ last_save.hash = NoHash /\ NoSourceFile /\ WithinTtl) =>
        load_result = << >>

\* C12 (amended): when no source file exists at load time, a cache whose
\* stored fingerprint is defined is invalid (empty result), and a cache saved
\* while no source file existed is returned, subject to the TTL: the result
\* holds one of the saved records for every saved bucket name.
C12_UndefinedFingerprint ==
    (PlainLoad /\ NoSourceFile) =>
        /\ (HasFile /\ StoredHash # NoHash) => load_result = << >>
        /\ (SavedNonEmpty /\ last_save.hash = NoHash /\ (cache_ttl = 0 \/ WithinTtl)) =>
              /\ Range(load_result) \subseteq Range(cache_input)
              /\ {load_result[i].name : i \in DOMAIN load_result} =
                     {cache_input[i].name : i \in DOMAIN cache_input}

\* a cache saved with no source file is loaded, within a positive TTL, with no
\* source file, and its records come back
C12_Witness ==
    /\ PlainLoad /\ NoSourceFile /\ SavedNonEmpty
    /\ last_save.hash = NoHash
    /\ cache_ttl > 0 /\ WithinTtl
    /\ load_result # << >>

\* the saved_at member of the file is missing (null) or no ISO-8601 time
SavedAtUnusable ==
    \/ cache_file[1].saved_at = JsonNullTime
    \/ cache_file[1].saved_at.zone = "garbage"
\* the age of the file, when saved_at is usable
Age == now - cache_file[1].saved_at.secs
Stale(ttl) == SavedAtUnusable \/ Age > ttl

\* C13 (as stated): load_bucket_cache returns the empty list whenever
\* now - saved_at exceeds the configured TTL, and whenever saved_at is missing
\* or unparseable, even if the fingerprint matches.
C13_AsStated ==
    (PlainLoad /\ HasFile /\ Stale(cache_ttl)) => load_result = << >>

\* C13 (amended): the same when the configured TTL is positive (a TTL of 0
\* disables the check).
C13_TtlExpiry ==
    (PlainLoad /\ HasFile /\ cache_ttl > 0 /\ Stale(cache_ttl)) =>
        load_result = << >> /\ load_call.raised = "none"

\* a non-empty cache is loaded under the fingerprint of its save after the
\* positive TTL has passed
C13_Witness ==
    /\ PlainLoad /\ SavedNonEmpty
    /\ StoredHash = LiveHash
    /\ cache_ttl > 0
    /\ ~SavedAtUnusable /\ Age > cache_ttl
    /\ load_result = << >>

\* the well-formed records of the file, for the documents of the model
WellFormed(doc) ==
    IF doc.json # "object" \/ doc.buckets_type # "list" THEN << >>
    ELSE IF doc.buckets = MixedRows
    THEN <<BucketInfo("bucket-a", "dev", BUCKET_ACCESS_UNKNOWN, TRUE)>>
    ELSE IF doc.buckets = <<GoodRow>>
    THEN <<BucketInfo("bucket-a", "dev", BUCKET_ACCESS_GOOD, FALSE)>>
    ELSE << >>
IsForeign == HasFile /\ ~last_save.called

\* C14 (as stated): load_bucket_cache(ignore_ttl=True) returns an envelope
\* older than the TTL when its fingerprint equals the live one, and the empty
\* list when the fingerprint differs.
C14_AsStated ==
    (cache_pc = "loaded" /\ load_call.ignore_ttl /\ IsForeign) =>
        /\ load_call.raised = "none"
        /\ StoredHash = LiveHash => load_result = WellFormed(cache_file[1])
        /\ StoredHash # LiveHash => load_result = << >>

\* C15: an unreadable or malformed cache file is handled like a missing one:
\* load_bucket_cache raises nothing and returns the well-formed records only
\* (the empty list when the file is missing, no JSON, no object or has no
\* list of buckets); a failing write makes save_bucket_cache return False and
\* raise nothing.
C15_CorruptCacheIsMiss ==
    /\ PlainLoad =>
         /\ load_call.raised = "none"
         /\ ~HasFile => load_result = << >>
         /\ IsForeign => load_result \in {<< >>, WellFormed(cache_file[1])}
         /\ (IsForeign /\ StoredHash = LiveHash /\ cache_ttl = 0) =>
               load_result = WellFormed(cache_file[1])
    /\ cache_pc = "saved" =>
         /\ last_save.raised = "none"
         /\ last_save.ok = last_save.written

\* a file with a null item, a nameless item and a blank-named item has just
\* been loaded: its one well-formed record is returned
C15_Witness ==
    /\ PlainLoad /\ IsForeign
    /\ cache_file[1].buckets = MixedRows
    /\ Len(load_result) = 1
    /\ load_call.raised = "none"

(***************************************************************************)
(* Properties of the step-by-step save (SpecAtomic).                       *)
(***************************************************************************)
\* the complete envelopes a read may observe: the content the cache path had
\* when the save was entered and, during the save, the text being saved
Envelopes ==
    IF saver.pc = "idle" THEN {fs[TargetPath]}
    ELSE {saver.previous, <<saver.text>>}

Complete(file) == file = NoFile \/ file[1].json = "object"

\* C16: during one save_bucket_cache, with readers at any moment, the cache
\* path always holds, and every read of it observes, either the complete
\* previous envelope or the complete new envelope, never part of a text.
C16_Step ==
    /\ Complete(fs'[TargetPath])
    /\ fs'[TargetPath] \in Envelopes'
    /\ \A r \in Readers :
         (readers[r].pc = "idle" /\ readers'[r].pc = "read") =>
            /\ Complete(readers'[r].seen)
            /\ readers'[r].seen \in Envelopes

C16_AtomicPersistence == [][C16_Step]_vars

\* after a save that replaced an earlier envelope, one reader holds the
\* earlier envelope it read before the rename and another the new envelope
C16_Witness ==
    \E r1 \in Readers : \E r2 \in Readers :
        /\ readers[r1].pc = "read" /\ readers[r2].pc = "read"
        /\ readers[r1].seen # NoFile
        /\ readers[r2].seen # NoFile
        /\ readers[r1].seen # readers[r2].seen
        /\ readers[r2].seen = fs[TargetPath]
        /\ saver.pc = "returned" /\ saver.ok

(***************************************************************************)
(* Properties of the preview loads (SpecPreview).                          *)
(***************************************************************************)
\* load i receives its response in this step
Responds(i) == loads[i].pc = "await" /\ loads'[i].pc = "done"

\* C18: a response (value or error) of _load_preview, _load_more_preview,
\* _load_prefix_stats or _load_deep_prefix_stats whose token is not the latest
\* issued preview token changes nothing of the preview state, and no response
\* changes the token.
C18_Step ==
    \A i \in Loads :
        Responds(i) =>
            /\ preview_token' = preview_token
            /\ loads[i].token # preview_token => preview' = preview

C18_StaleResponseIgnored == [][C18_Step]_vars

\* the response of a superseded _load_preview was dropped and the pane shows
\* the object of the later load
C18_Witness ==
    \E i \in Loads : \E j \in Loads :
        /\ loads[i].pc = "done" /\ loads[i].kind = "preview" /\ ~loads[i].applied
        /\ loads[j].pc = "done" /\ loads[j].kind = "preview" /\ loads[j].applied
        /\ loads[i].token < loads[j].token
        /\ loads[i].info # loads[j].info
        /\ preview.key = loads[j].info

(***************************************************************************)
(* Properties of show_prefix (SpecNav).                                    *)
(***************************************************************************)
\* the invocations that hold a content token and await the service
HoldsToken(i) == shows[i].pc \in {"list", "fallback", "fallback_access", "fallback_save", "access"}

\* C17: the outcome of a content load (its rows, its error row, the tree
\* children, the current context, the history) is applied only while its
\* content token is the latest: a step of an invocation whose token has been
\* superseded leaves all of them as they are.
C17_Step ==
    \A i \in Shows :
        (HoldsToken(i) /\ shows[i].token # content_token /\ shows'[i] # shows[i])
            => UNCHANGED <<table, content_rows, children, current_context, history>>
C17_AsStated == [][C17_Step]_vars

(***************************************************************************)
(* Properties of the listings (SpecList).                                  *)
(***************************************************************************)
Elements(s) == {s[k] : k \in 1..Len(s)}
NoDuplicates(s) == Cardinality(Elements(s)) = Len(s)

\* what one call returns when the service answers with everything on one page
Unpaginated ==
    LET entries == RollUp(list_data, lister.prefix, << >>)
    IN AbsorbListing([IdleLister EXCEPT !.prefix = lister.prefix],
                     list_objects_v2(entries, Len(entries) + 1, 0))

\* the tokens of the pages, in the order the service hands them out
RECURSIVE PageTokens(_, _)
PageTokens(from, count) ==
    IF from + page_size >= count THEN <<from>>
    ELSE <<from>> \o PageTokens(from + page_size, count)

ListReturned == lister.pc = "returned" /\ lister.op = "shallow"

\* C19: the prefixes and objects _list_prefixes_and_objects returns for a
\* listing split across pages are, as sets, those of one unpaginated call
\* over the same data, no entry is duplicated, and each page is requested
\* once, in continuation-token order.
C19_PaginationCorrect ==
    ListReturned =>
        /\ Elements(lister.prefixes) = Elements(Unpaginated.prefixes)
        /\ Elements(lister.objects) = Elements(Unpaginated.objects)
        /\ NoDuplicates(lister.prefixes)
        /\ NoDuplicates(lister.objects)
        /\ lister.has_any = Unpaginated.has_any
        /\ lister.requests = PageTokens(0, Len(RollUp(list_data, lister.prefix, << >>)))

\* a listing of three pages with prefixes and objects on them has returned
C19_Witness ==
    /\ ListReturned
    /\ Len(lister.requests) = 3
    /\ lister.prefixes # << >>
    /\ Len(lister.objects) >= 2

ScanReturned == lister.pc = "returned" /\ lister.op = "deep"

\* C20: for a listing of K objects under the prefix and maxKeys = m < K,
\* _scan_prefix_recursive returns scannedCount = m, truncated = true and
\* fileCount <= m.
C20_AsStated ==
    (ScanReturned /\ lister.max_keys # NoLimit /\ lister.max_keys < Len(list_data)) =>
        /\ lister.scanned = lister.max_keys
        /\ lister.truncated
        /\ lister.file_count <= lister.max_keys

(***************************************************************************)
(* Properties of _probe_profile_access_for_bucket (SpecProbe).             *)
(***************************************************************************)
ProbeSample == SampledKeys(UsableKeys(probe_backend.reads))

\* the first sampled read that is not denied, or 0 when all are denied
FirstSettled ==
    IF \E i \in 1..Len(ProbeSample) : ProbeSample[i] # "denied"
    THEN CHOOSE i \in 1..Len(ProbeSample) :
            /\ ProbeSample[i] # "denied"
            /\ \A j \in 1..(i - 1) : ProbeSample[j] = "denied"
    ELSE 0

ListAllOver == lba.pc \in {"returned", "raised"}
BucketsOf(profile) == SelectSeq(lba.buckets, LAMBDA b : b.profile = profile)
ErrorsOf(profile) == SelectSeq(lba.errors, LAMBDA e : e.profile = profile)

\* C26: whichever profiles fail to list, each configured profile contributes
\* either all the buckets it listed or exactly one (profile, error) entry, a
\* failing profile drops nothing of the others, and the call does not raise.
C26_PartialBatchFailure ==
    ListAllOver =>
        /\ lba.pc = "returned"
        /\ \A i \in DOMAIN profiles :
              IF lba.results[i].raised
              THEN /\ ErrorsOf(profiles[i])
                         = <<[profile |-> profiles[i], error |-> lba.results[i].error]>>
                   /\ BucketsOf(profiles[i]) = << >>
              ELSE /\ ErrorsOf(profiles[i]) = << >>
                   /\ [k \in DOMAIN BucketsOf(profiles[i]) |-> BucketsOf(profiles[i])[k].name]
                         = lba.results[i].names
        /\ Len(lba.errors) = Cardinality({i \in DOMAIN profiles : lba.results[i].raised})
        /\ Len(lba.buckets)
              = Cardinality({<<i, k>> \in (DOMAIN profiles) \X (1..Len(BucketPool)) :
                                ~lba.results[i].raised /\ k \in DOMAIN lba.results[i].names})

\* a call returned while one profile failed and two others listed buckets
C26_Witness ==
    /\ lba.pc = "returned"
    /\ Len(lba.errors) = 1
    /\ \E i, j \in DOMAIN profiles :
          /\ i # j
          /\ lba.results[i].names # << >>
          /\ lba.results[j].names # << >>

(***************************************************************************)
(* Properties of refresh_buckets (SpecRefresh).                            *)
(***************************************************************************)
\* C27: at startup, when load_bucket_cache returns a non-empty cache,
\* refresh_buckets shows the cached buckets and calls list_buckets_all zero
\* times.
C27_AsStated ==
    (refresh.pc # "idle" /\ refresh.has_cached) => refresh.list_calls = 0

(***************************************************************************)
(* Properties of the tree, the speculative paths and the history           *)
(* (SpecTree).                                                             *)
(***************************************************************************)
\* show_prefix number i returns in this step
ShowEnds(i) == tree_shows[i].pc # "idle" /\ tree_shows'[i].pc = "idle"

\* the nodes the navigation behind show_prefix number i created
CreatedBy(i) == Range(tree_shows[i].selected.created)

\* every entry of the registries is a node of the tree
RegistriesClean(t) ==
    /\ \A k \in DOMAIN t.bucket_nodes : InTree(t, t.bucket_nodes[k].node)
    /\ \A k \in DOMAIN t.prefix_nodes : InTree(t, t.prefix_nodes[k].node)

\* C21: when a navigation that created nodes finds neither prefixes nor
\* objects under its prefix, every node created for it is removed from the
\* tree and the cursor is back on the node selected before the navigation
\* (the root if there was none).
C21_Step ==
    \A i \in TreeShows :
        (/\ ShowEnds(i)
         /\ tree_shows'[i].outcome \in {"not_found", "not_found_rolled_back"}
         /\ CreatedBy(i) # {})
        => /\ \A n \in CreatedBy(i) : ~InTree(s3_tree', n)
           /\ s3_tree'.cursor_node = IF tree_shows[i].selected.prev = NoNode THEN Root
                                     ELSE tree_shows[i].selected.prev
C21_AsStated == [][C21_Step]_vars

\* C22: when a navigation attempt finishes, either all the nodes it created
\* are in the tree (success), or none of them is and no entry of
\* bucket_nodes or prefix_nodes refers to a removed node (failure).
C22_Step ==
    \A i \in TreeShows :
        (ShowEnds(i) /\ CreatedBy(i) # {})
        => IF tree_shows'[i].outcome \in {"shown", "superseded"}
           THEN \A n \in CreatedBy(i) : InTree(s3_tree', n)
           ELSE /\ \A n \in CreatedBy(i) : ~InTree(s3_tree', n)
                /\ RegistriesClean(s3_tree')
C22_AsStated == [][C22_Step]_vars

\* C23: a navigation to a non-root prefix that created no node and finds
\* neither prefixes nor objects leaves the context, the path bar, the rows,
\* the tree and the history as they were when it started.
C23_Step ==
    \A i \in TreeShows :
        (/\ ShowEnds(i)
         /\ tree_shows'[i].outcome = "not_found"
         /\ CreatedBy(i) = {})
        => ViewOf(s3_tree', browser') = tree_shows[i].before
C23_AsStated == [][C23_Step]_vars

\* C29: when the listing fails under the current profile and under every
\* fallback profile, then, if the node is the target of the pending batch,
\* every node of the batch is out of the tree and of the registries and the
\* node selected before is selected again; otherwise the error row is shown
\* and the nodes and the registries are as before.
C29_Step ==
    \A i \in TreeShows :
        (ShowEnds(i) /\ tree_shows'[i].outcome \in {"failed", "failed_rolled_back"})
        => IF IsPendingTarget(s3_tree, tree_shows[i].node)
           THEN /\ \A k \in DOMAIN s3_tree.pending.created :
                     ~InTree(s3_tree', s3_tree.pending.created[k].node)
                /\ RegistriesClean(s3_tree')
                /\ s3_tree'.cursor_node = IF s3_tree.pending.prev = NoNode THEN Root
                                          ELSE s3_tree.pending.prev
           ELSE /\ browser'.table.kind = "error"
                /\ s3_tree'.nodes = s3_tree.nodes
                /\ s3_tree'.bucket_nodes = s3_tree.bucket_nodes
                /\ s3_tree'.prefix_nodes = s3_tree.prefix_nodes
C29_AsStated == [][C29_Step]_vars

\* action_back or action_forward runs in this step
BackOrForward ==
    /\ browser'.ops = browser.ops + 1
    /\ browser'.history_index # browser.history_index

\* on_tree_node_selected shows the bucket list in this step
RootShown ==
    /\ s3_tree.selected # << >>
    /\ Head(s3_tree.selected).node = Root
    /\ s3_tree'.selected = Tail(s3_tree.selected)
    /\ tree_shows' = tree_shows

HistoryKept ==
    /\ browser'.history = browser.history
    /\ browser'.history_index = browser.history_index

\* the current entry of the history is the context
CurrentEntryIs(b, context) ==
    /\ b.history_index >= 0
    /\ b.history_index < Len(b.history)
    /\ b.history[b.history_index + 1] = context

C24_Moves ==
    BackOrForward
    => /\ browser'.history = browser.history
       /\ browser'.history_index \in {browser.history_index - 1, browser.history_index + 1}
       /\ browser'.history_index \in 0..(Len(browser.history) - 1)

C24_ReplayKeeps ==
    /\ \A i \in TreeShows : (ShowEnds(i) /\ tree_shows[i].selected.replay) => HistoryKept
    /\ (RootShown /\ Head(s3_tree.selected).replay) => HistoryKept

C24_UserRecorded ==
    /\ \A i \in TreeShows :
          (ShowEnds(i) /\ ~tree_shows[i].selected.replay /\ tree_shows'[i].outcome = "shown")
          => CurrentEntryIs(browser', browser'.table.info)
    /\ (RootShown /\ ~Head(s3_tree.selected).replay) => CurrentEntryIs(browser', NoContext)

\* C24: action_back and action_forward move the history index by one within
\* the list and leave the list alone; the replay they start changes neither
\* the list nor the index; and a navigation of the user that is shown is the
\* current entry of the history afterwards.
C24_Step == C24_Moves /\ C24_ReplayKeeps /\ C24_UserRecorded
C24_AsStated == [][C24_Step]_vars

(***************************************************************************)
(* Properties of the history (SpecHistory).                                *)
(***************************************************************************)
NoAdjacentDuplicates(h) ==
    \A k \in 1..(Len(h) - 1) : _history_key(h[k]) # _history_key(h[k + 1])

HistoryContexts ==
    {NoContext} \cup {NodeInfo(profile, prefix) : profile \in Range(profiles),
                                                  prefix \in TreePrefixes}

\* C25: no two adjacent entries of the history have the same (profile,
\* bucket, prefix) key, and recording a context equal to the current entry
\* changes neither the list nor the index.
C25_NoConsecutiveDuplicates ==
    /\ NoAdjacentDuplicates(browser.history)
    /\ \A context \in HistoryContexts :
          (/\ browser.history_index >= 0
           /\ _history_key(browser.history[browser.history_index + 1])
                 = _history_key(context))
          => _record_history_at(browser, context) = browser

\* a prefix was shown that is the current entry while later entries exist:
\* its recording was the no-op (an append would have dropped them)
C25_Witness ==
    /\ Len(browser.history) >= 3
    /\ browser.history_index = 1
    /\ browser.table.kind = "listing"
    /\ browser.history[browser.history_index + 1] = browser.table.info
    /\ \E i \in TreeShows : tree_shows[i].outcome = "shown"
    /\ \A i \in TreeShows : tree_shows[i].pc = "idle"
    /\ s3_tree.selected = << >>
    /\ ~browser.suppress_history_once

(***************************************************************************)
(* Properties of the profile fallback (SpecFallback).                      *)
(***************************************************************************)
\* the named profiles come before the default one, and otherwise the order
\* is that of the configuration
ComesBefore(p, q) ==
    IF (p = None) # (q = None) THEN q = None
    ELSE \E k, m \in DOMAIN profiles : profiles[k] = p /\ profiles[m] = q /\ k < m

\* C30: when the listing under the current profile of the bucket fails and
\* another profile lists it, the bucket moves to the first such profile
\* (named profiles first, then configuration order): every profile before
\* it was tried, the record of the bucket, the registries and the current
\* context carry it, and the record is handed to save_bucket_cache.
C30_Step ==
    \A i \in TreeShows :
        (tree_shows[i].pc = "fallback_access" /\ tree_shows'[i].pc = "fallback_save")
        => LET current == tree_shows[i].info.profile
               attempted == tree_shows[i].attempted
               chosen == browser'.bucket.profile
           IN /\ chosen # current
              /\ chosen = attempted[Len(attempted)]
              /\ \A p \in Range(profiles) \ {current} :
                    ComesBefore(p, chosen) <=> (p \in Range(attempted) /\ p # chosen)
              /\ browser'.current_context = NodeInfo(chosen, tree_shows[i].info.prefix)
              /\ DictGet(s3_tree'.bucket_nodes, <<chosen, "">>) # NoNode
              /\ \A k \in DOMAIN s3_tree.prefix_nodes :
                    s3_tree.prefix_nodes[k].key[1] = current
                    => DictGet(s3_tree'.prefix_nodes,
                               <<chosen, s3_tree.prefix_nodes[k].key[2]>>)
                         = s3_tree.prefix_nodes[k].node
              /\ \E access \in TreeAccesses :
                    /\ browser'.bucket = [profile |-> chosen, access |-> access]
                    /\ browser'.saved = <<[profile |-> chosen, access |-> access]>>
C30_FallbackSwitch == [][C30_Step]_vars

\* the second candidate listed the prefix after the first one failed
C30_Witness ==
    \E i \in TreeShows :
        /\ tree_shows[i].pc = "fallback_save"
        /\ Len(tree_shows[i].attempted) = 2
        /\ browser.bucket.profile = tree_shows[i].attempted[2]
        /\ browser.saved # << >>

(***************************************************************************)
(* Properties of on_tree_node_expanded and _sync_prefix_children           *)
(* (SpecExpand).                                                           *)
(***************************************************************************)
NoTwoChildrenShareAPrefix(kids) ==
    \A j, k \in DOMAIN kids : kids[j].prefix = kids[k].prefix => j = k

C31_Step ==
    /\ expansion.loaded => expansion'.list_calls = expansion.list_calls
    /\ expansion'.syncs # expansion.syncs =>
         /\ \A k \in DOMAIN expansion.children :
               /\ k \in DOMAIN expansion'.children
               /\ expansion'.children[k] = expansion.children[k]
         /\ NoTwoChildrenShareAPrefix(expansion'.children)

PageAt(token) ==
    list_objects_v2(RollUp(list_data, lister.prefix, << >>), page_size, token)

\* the bucket holds nothing but the placeholder key of the folder "p/"
OnlyPlaceholder ==
    /\ Len(list_data) = 1
    /\ list_data[1].key = <<"p", "">>

\* C32: the has_any result of _list_prefixes_and_objects is true exactly when
\* some page held a common prefix or an object entry; no returned object has
\* the key of the listed prefix or a key that ends with "/"; a folder that
\* holds only its placeholder key gives has_any true and no objects, and a
\* path nothing exists under gives has_any false.
C32_HasAnyAndFilter ==
    ListReturned =>
        /\ lister.has_any <=>
              \E k \in DOMAIN lister.requests :
                  \/ PageAt(lister.requests[k]).CommonPrefixes # << >>
                  \/ PageAt(lister.requests[k]).Contents # << >>
        /\ \A k \in DOMAIN lister.objects :
              /\ lister.objects[k].key # lister.prefix
              /\ lister.objects[k].key[Len(lister.objects[k].key)] # ""
        /\ OnlyPlaceholder => (lister.has_any /\ lister.objects = << >>)
        /\ list_data = << >> => ~lister.has_any

\* the listing of a folder that holds only its placeholder key has returned
C32_Witness ==
    /\ ListReturned
    /\ OnlyPlaceholder
    /\ lister.has_any
    /\ lister.objects = << >>

(***************************************************************************)
(* Properties of the incremental preview (SpecPane).                       *)
(***************************************************************************)
RECURSIVE BytesOf(_)
\* the bytes a text was decoded from, in the order of the text
BytesOf(content) ==
    IF content = << >> THEN << >>
    ELSE content[1].of \o BytesOf(SubSeq(content, 2, Len(content)))

C33_Step ==
    \A i \in PaneLoads :
        (pane.loads[i].pc = "idle" /\ pane'.loads[i].kind = "more")
            => pane'.loads[i].start = pane.next_start

\* the preview of an object holds the bytes [0, next_start) of the object
PreviewHoldsPrefix ==
    pane.key # NoKey =>
        /\ pane.next_start <= Len(PaneObjects[pane.key])
        /\ BytesOf(pane.content) = [k \in 1..pane.next_start |-> ByteAt(pane.key, k - 1)]

PaneApplies(i) ==
    /\ pane.loads[i].pc = "await"
    /\ pane'.loads[i].pc = "idle"
    /\ pane.loads[i].token = pane.token

PreviewState(p) == <<p.key, p.content, p.next_start, p.total, p.truncated, p.text>>

C39_Step ==
    \A i \in PaneLoads :
        (/\ pane.loads[i].pc = "await"
         /\ pane'.loads[i].pc = "idle"
         /\ pane.loads[i].outlived_reset)
            => PreviewState(pane') = PreviewState(pane)

\* C39: after the preview state was reset by the summary of a selection or by
\* clearing the selection, the response of a preview or load-more request
\* made before the reset changes nothing of the preview state.
C39_AsStated == [][C39_Step]_vars

(***************************************************************************)
(* Properties of _client (SpecClients).                                    *)
(***************************************************************************)
\* C34: for every interleaving of _client calls from concurrent threads, at
\* most one client is constructed for a profile and every call for the
\* profile returns that one object.
C34_AsStated ==
    \A profile \in ClientProfiles :
        /\ clients.constructed[profile] <= 1
        /\ Cardinality(clients.returned[profile]) <= 1

(***************************************************************************)
(* Properties of the pagination loops (SpecPager).                         *)
(***************************************************************************)
\* C35: a paginated operation makes at most one list call per page of the
\* backend's chain, the chains with a truncated page that supplies no
\* continuation token included: no page is requested twice, and once every
\* page was requested the operation has returned.
C35_AsStated ==
    /\ NoDuplicates(pager.state.requests)
    /\ Len(pager.state.requests) <= Len(pager.chain)
    /\ Len(pager.state.requests) = Len(pager.chain) => pager.state.pc = "returned"

(***************************************************************************)
(* Bucket nodes of the tree (SpecTree).                                    *)
(***************************************************************************)
\* the bucket nodes that are in the tree
BucketNodesInTree ==
    {n \in DOMAIN s3_tree.nodes : s3_tree.nodes[n].kind = "bucket" /\ InTree(s3_tree, n)}

\* no selection waits to be handled and no show_prefix is under way
TreeAtRest ==
    /\ s3_tree.selected = << >>
    /\ \A i \in TreeShows : tree_shows[i].pc = "idle"

C37_AsStated ==
    ledger.pc # "idle" =>
        /\ Len(ledger.buckets) = Len(ledger.before)
        /\ \A k \in DOMAIN ledger.buckets :
              IF ledger.before[k].name = ledger.switched
              THEN /\ ledger.buckets[k].name = ledger.before[k].name
                   /\ ledger.buckets[k].is_empty = ledger.before[k].is_empty
              ELSE ledger.buckets[k] = ledger.before[k]
        /\ ledger.pc = "saved" =>
              \A k \in DOMAIN ledger.saved :
                  \E j \in DOMAIN ledger.before :
                      /\ ledger.before[j].name = ledger.saved[k].name
                      /\ ledger.before[j].is_empty = ledger.saved[k].is_empty
                      /\ ledger.before[j].name # ledger.switched =>
                            /\ ledger.before[j].profile = ledger.saved[k].profile
                            /\ ledger.before[j].access = ledger.saved[k].access

(***************************************************************************)
(* Properties of overlapping refreshes (SpecReloads).                      *)
(***************************************************************************)
\* invocation i takes a step
ReloadSteps(i) == reloads'.invocations[i] # reloads.invocations[i]

C38_Step ==
    \A i \in Reloaders :
        (/\ ReloadSteps(i)
         /\ reloads.invocations[i].pc # "idle"
         /\ reloads.invocations[i].token # reloads.load_token)
            => /\ reloads'.nodes \in {reloads.nodes, 0}
               /\ reloads'.bucket_list = reloads.bucket_list
               /\ reloads'.candidates \in {reloads.candidates, 0}
               /\ reloads'.cache = reloads.cache

\* C38: once a newer refresh_buckets has started, an invocation whose load
\* token is no longer the latest does not render bucket nodes, does not
\* replace the bucket list or the candidate map by its own, and does not
\* write the bucket cache.
C38_AsStated == [][C38_Step]_vars

(***************************************************************************)
(* Properties of the history cursor (SpecCursor).                          *)
(***************************************************************************)
CursorInRange ==
    /\ cursor.history_index >= 0 - 1
    /\ cursor.history_index < Len(cursor.history)
    /\ cursor.history_index = 0 - 1 <=> cursor.history = << >>
    /\ cursor.back_disabled <=> ~(\E k \in DOMAIN cursor.history : k < cursor.history_index + 1)
    /\ cursor.forward_disabled <=>
          ~(\E k \in DOMAIN cursor.history : k > cursor.history_index + 1)

\* a context is recorded in this step
CursorRecords ==
    /\ cursor'.history # cursor.history
    /\ cursor'.history # << >>

C40_Step ==
    CursorRecords =>
        /\ Len(cursor'.history) = cursor.history_index + 2
        /\ SubSeq(cursor'.history, 1, cursor.history_index + 1)
              = SubSeq(cursor.history, 1, cursor.history_index + 1)
        /\ cursor'.history_index = Len(cursor'.history) - 1

\* C40: the cursor is at least -1 and less than the length of the history,
\* and -1 exactly when the history is empty; a recording made while the
\* cursor is not at the end drops the entries after the cursor and leaves the
\* cursor on the new last entry; the back button is disabled exactly when no
\* entry precedes the cursor and the forward button exactly when none
\* follows it.
C40_HistoryCursor == [](CursorInRange) /\ [][C40_Step]_vars

\* after going back twice a new context was recorded: two forward entries
\* were dropped and the cursor is on the new last entry
C40_Witness ==
    /\ cursor.discarded = 2
    /\ Len(cursor.history) = 2
    /\ cursor.history_index = 1
    /\ cursor.forward_disabled
    /\ ~cursor.back_disabled

====
